---- MODULE Spec2Model ----
(***************************************************************************)
(* Progression & Reward Engine of polystirolhub-backend.                   *)
(*                                                                         *)
(* The database is the shared state.  Every request or job is a process    *)
(* with its own SQLAlchemy session: a call stack of frames (one frame per  *)
(* Python coroutine being executed), the session's pending unit of work    *)
(* and the row locks its open transaction holds.  One action is one        *)
(* database round trip (await) of the code; PostgreSQL runs the statements *)
(* under READ COMMITTED, so a statement sees committed rows plus the       *)
(* session's own pending writes.                                           *)
(***************************************************************************)
EXTENDS Integers, Sequences, FiniteSets, Bags, TLC

NULL == 0 - 1

(***************************************************************************)
(* Bounds of the model.                                                    *)
(***************************************************************************)
MaxProcs == 2
MaxClock == 3
MaxCalls == 4

Procs == 1..MaxProcs
Users == {"u1", "u2"}

(***************************************************************************)
(* app/core/progression.py: the level curve.                               *)
(***************************************************************************)
MaxLevel == 1000

FloorPlusOne_calculate_e_for_level(level) ==
    IF level < 1 THEN 0 ELSE (level \div 10 + 1) * 100

\* math.ceil(level / 10) * 100
calculate_e_for_level(level) ==
    IF level < 1 THEN 0 ELSE ((level + 9) \div 10) * 100

\* for i in range(1, level + 1): total_xp += calculate_e_for_level(i)
\* (the sum of the values of a function is the cardinality of it as a bag).
calculate_total_xp_for_level(level) ==
    IF level < 1 THEN 0
    ELSE BagCardinality([i \in 1..level |-> calculate_e_for_level(i)])

\* The while loop returns at level: the next level is out of reach, or the
\* guard against an endless loop (level > 1000 after level += 1) strikes.
OffByOne_Stops(total_xp, level) ==
    total_xp <= calculate_total_xp_for_level(level + 1) \/ level + 1 > MaxLevel

Stops(total_xp, level) ==
    total_xp < calculate_total_xp_for_level(level + 1) \/ level + 1 > MaxLevel

\* The while loop entered at level: it returns at the first level at which
\* it stops.
RestartAtCap_LevelLoop(total_xp, level) ==
    LET last == CHOOSE l \in level..MaxLevel :
                    Stops(total_xp, l) /\ \A k \in level..(l - 1) : ~Stops(total_xp, k)
    IN IF total_xp < calculate_total_xp_for_level(last + 1) THEN last ELSE 1

LevelLoop(total_xp, level) ==
    CHOOSE l \in level..MaxLevel :
        Stops(total_xp, l) /\ \A k \in level..(l - 1) : ~Stops(total_xp, k)

calculate_level_from_xp(total_xp) ==
    IF total_xp < 0 THEN 1 ELSE LevelLoop(total_xp, 1)

\* round(x, 2) of x = n / d percent, in hundredths of a percent (d > 0).
RoundHundredths(n, d) ==
    LET whole == (n * 100) \div d
        rest == (n * 100) % d
    IN IF 2 * rest < d THEN whole
       ELSE IF 2 * rest > d THEN whole + 1
       ELSE IF whole % 2 = 0 THEN whole ELSE whole + 1

\* get_progression_info; progress_percent is in hundredths of a percent.
get_progression_info(total_xp) ==
    LET current_level == calculate_level_from_xp(total_xp)
        xp_for_current_level == calculate_total_xp_for_level(current_level)
        xp_for_next_level == calculate_total_xp_for_level(current_level + 1)
        xp_progress == total_xp - xp_for_current_level
        e_for_next == calculate_e_for_level(current_level + 1)
    IN [level |-> current_level,
        total_xp |-> total_xp,
        xp_for_current_level |-> xp_for_current_level,
        xp_for_next_level |-> xp_for_next_level,
        xp_progress |-> xp_progress,
        xp_needed |-> xp_for_next_level - total_xp,
        progress_percent |-> IF e_for_next > 0
                             THEN RoundHundredths(xp_progress * 100, e_for_next)
                             ELSE 100 * 100]

Max(a, b) == IF a >= b THEN a ELSE b


(***************************************************************************)
(* The definition tables (badges, quests): rows written by the admin CRUD, *)
(* constant while the engine runs.                                         *)
(***************************************************************************)
Hour == 2

BadgeNames ==
    {"lead", "rich", "top", "season", "hoard", "idle", "streak", "saver", "banker"}

BadgeRow(badge_type, condition_key, target_value, reward_xp, reward_balance, auto_check) ==
    [badge_type |-> badge_type, condition_key |-> condition_key,
     target_value |-> target_value, reward_xp |-> reward_xp,
     reward_balance |-> reward_balance, auto_check |-> auto_check]

badges ==
    [b \in BadgeNames |->
        CASE b = "lead" -> BadgeRow("temporary", "xp_leader", NULL, 5, 1, TRUE)
          [] b = "rich" -> BadgeRow("permanent", "currency_accumulated", 2, 2, 0, FALSE)
          [] b = "top" -> BadgeRow("permanent", "xp_leader", NULL, 1, 0, TRUE)
          [] b = "season" -> BadgeRow("temporary", "playtime_leader_season", NULL, 0, 0, TRUE)
          [] b = "hoard" -> BadgeRow("event", "currency_accumulated", 2, 0, 0, TRUE)
          [] b = "idle" -> BadgeRow("permanent", "currency_accumulated", NULL, 3, 0, FALSE)
          [] b = "streak" -> BadgeRow("temporary", "currency_accumulated", 2, 0, 0, FALSE)
          [] b = "saver" -> BadgeRow("permanent", "currency_accumulated", 1, 0, 1, FALSE)
          [] b = "banker" -> BadgeRow("permanent", "currency_accumulated", 1, 0, 1, FALSE)]

QuestNames == {"walk", "save", "play", "marathon", "join", "old", "links", "free"}

QuestRow(quest_type, condition_key, target_value, reward_xp, reward_balance, is_active) ==
    [quest_type |-> quest_type, condition_key |-> condition_key,
     target_value |-> target_value, reward_xp |-> reward_xp,
     reward_balance |-> reward_balance, is_active |-> is_active]

quests ==
    [q \in QuestNames |->
        CASE q = "walk" -> QuestRow("achievement", "blocks_traveled", 3, 4, 1, TRUE)
          [] q = "save" -> QuestRow("daily", "currency_accumulated", 2, 3, 0, TRUE)
          [] q = "play" -> QuestRow("daily", "playtime_daily", 2, 1, 0, TRUE)
          [] q = "marathon" -> QuestRow("daily", "playtime_daily", 3, 1, 0, TRUE)
          [] q = "join" -> QuestRow("daily", "server_join", 1, 0, 0, TRUE)
          [] q = "old" -> QuestRow("daily", "server_join", 1, 1, 0, FALSE)
          [] q = "links" -> QuestRow("achievement", "link_all_platforms", 3, 2, 0, TRUE)
          [] q = "free" -> QuestRow("achievement", "messages_sent", 0, 1, 0, TRUE)]


CounterKeys == {"currency_accumulated", "blocks_traveled"}

\* badge_conditions.py: the keys of CONDITION_HANDLERS whose handler class
\* has a check_and_extend_or_award method.
CONDITION_HANDLERS == {"xp_leader", "deaths_in_session", "playtime_leader_season", "messages_sent"}
PeriodicHandlers == {"xp_leader"}

\* A fixed order in which a SELECT without ORDER BY returns the definitions.
RECURSIVE SeqOf(_)
SeqOf(S) == IF S = {} THEN << >> ELSE LET x == CHOOSE y \in S : TRUE IN << x >> \o SeqOf(S \ {x})

(***************************************************************************)
(* State.                                                                  *)
(***************************************************************************)
VARIABLES
    users,                \* users table: [Users -> [xp, level, balance]]
    user_badges,          \* user_badges rows
    user_badge_progress,  \* user_badge_progress rows
    user_quests,          \* user_quests rows
    user_counters,        \* user_counters: [Users \X CounterKeys -> value | NULL]
    locks,                \* row locks held by open transactions
    clock,                \* datetime.now(), in half hours
    today,                \* date.today()
    next_id,              \* primary keys handed out so far
    proc,                 \* the processes: call stack and session
    reward_log,           \* history: reward credits committed, per grant
    calls,                \* history: the calls of a sequential client
    catalog               \* the rows of the badges and quests tables

vars == << users, user_badges, user_badge_progress, user_quests, user_counters,
           locks, clock, today, next_id, proc, reward_log, calls, catalog >>

tables == << user_badges, user_badge_progress, user_quests, user_counters, catalog >>

\* The definitions that exist: the engine reads them and never writes them.
BadgeIds == catalog.badges
QuestIds == catalog.quests

BaseCatalog == [badges |-> {"lead", "rich"}, quests |-> {"walk", "save"}]

(***************************************************************************)
(* A process: the call stack of the coroutines it is executing and its     *)
(* session.  A frame is a record [fn, pc, ...locals]; the pc of a frame    *)
(* that is waiting for a callee is the place where the callee returns to.  *)
(***************************************************************************)
Top(p) == proc[p].stack[Len(proc[p].stack)]

At(p, fn, pc) ==
    /\ proc[p].st = "run"
    /\ proc[p].stack # << >>
    /\ Top(p).fn = fn
    /\ Top(p).pc = pc

Pop(s) == SubSeq(s, 1, Len(s) - 1)
SetTop(s, f) == [s EXCEPT ![Len(s)] = f]
Goto(s, pc) == SetTop(s, [s[Len(s)] EXCEPT !.pc = pc])
Range(s) == {s[i] : i \in 1..Len(s)}

\* The try/except blocks around call sites: the pc a caller resumes at when
\* the callee raises ("" when the call is in no try block).
Handler(fn, pc) ==
    CASE fn = "award_badge" /\ pc = "reward_balance" -> "reward_balance"
      [] fn = "award_badge" /\ pc = "insert" -> "insert"
      [] fn = "quest_update_progress" /\ pc = "reward_balance" -> "reward_balance"
      [] fn = "quest_update_progress" /\ pc = "notify" -> "notify"
      [] fn = "add_currency" /\ pc = "update_progress" -> "return"
      [] fn = "add_currency" /\ pc = "return" -> "return"
      [] fn = "check_and_extend_or_award" /\ pc = "return" -> "return"
      [] fn = "check_periodic_badges" /\ pc = "next" -> "next"
      [] fn = "check_initial_quest_conditions" /\ pc = "next" -> "next"
      [] OTHER -> ""

RECURSIVE Unwind(_)
Unwind(s) ==
    IF s = << >> THEN s
    ELSE LET f == s[Len(s)] IN
         IF Handler(f.fn, f.pc) # "" THEN Goto(s, Handler(f.fn, f.pc))
         ELSE Unwind(Pop(s))

\* The top frame raises e / returns.
Raise(pr, e) ==
    LET s == Unwind(Pop(pr.stack)) IN
    [pr EXCEPT !.stack = s,
               !.st = IF s = << >> THEN "error" ELSE @,
               !.err = IF s = << >> THEN e ELSE @]

Return(pr) ==
    LET s == Pop(pr.stack) IN
    [pr EXCEPT !.stack = s, !.st = IF s = << >> THEN "done" ELSE @]

Call(pr, contpc, frame) ==
    [pr EXCEPT !.stack = Append(Goto(pr.stack, contpc), frame)]

Kept_Release(lk, p) == lk

\* COMMIT or ROLLBACK ends the transaction: its row locks are gone.
Release(lk, p) == {l \in lk : l.p # p}

\* The process moves on as pr holding the locks lk.  When its stack is
\* empty the request is over: get_db / AsyncSessionLocal() closes the
\* session, which rolls back what was not committed.
Settle(p, pr, lk) ==
    /\ proc' = [proc EXCEPT ![p] = IF pr.stack = << >> THEN [pr EXCEPT !.pend = << >>] ELSE pr]
    /\ locks' = IF pr.stack = << >> THEN Release(lk, p) ELSE lk

(***************************************************************************)
(* The session: its unit of work, flush and commit.                        *)
(***************************************************************************)
UserRes(u) == [tbl |-> "users", id |-> 0, u |-> u, k |-> ""]

ResOf(w) ==
    IF w.tbl = "user_counters"
    THEN [tbl |-> w.tbl, id |-> 0, u |-> w.row.user_id, k |-> w.row.counter_key]
    ELSE [tbl |-> w.tbl, id |-> w.row.id, u |-> "", k |-> ""]

Write(tbl, op, row) == [tbl |-> tbl, op |-> op, row |-> row, flushed |-> FALSE]

\* The object is added to the unit of work, or changed in it (one entry per
\* object: an INSERT that was not committed yet stays an INSERT).
Put(pend, tbl, row) ==
    IF \E i \in 1..Len(pend) : pend[i].tbl = tbl /\ pend[i].row.id = row.id
    THEN [i \in 1..Len(pend) |->
            IF pend[i].tbl = tbl /\ pend[i].row.id = row.id
            THEN [pend[i] EXCEPT !.row = row]
            ELSE pend[i]]
    ELSE Append(pend, Write(tbl, "upd", row))

\* uq_user_badge, uq_user_badge_progress, uq_user_quest_date.  In PostgreSQL
\* NULLs are distinct in a unique constraint.
SameUniqueKey(tbl, r1, r2) ==
    CASE tbl = "user_badges" -> r1.user_id = r2.user_id /\ r1.badge_id = r2.badge_id
      [] tbl = "user_badge_progress" -> r1.user_id = r2.user_id /\ r1.badge_id = r2.badge_id
      [] tbl = "user_quests" ->
            /\ r1.user_id = r2.user_id /\ r1.quest_id = r2.quest_id
            /\ r1.quest_date # NULL /\ r1.quest_date = r2.quest_date
      [] OTHER -> FALSE

Committed(tbl) ==
    CASE tbl = "user_badges" -> user_badges
      [] tbl = "user_badge_progress" -> user_badge_progress
      [] tbl = "user_quests" -> user_quests
      [] OTHER -> {}

RECURSIVE ApplyRows(_, _, _)
ApplyRows(rows, tbl, pend) ==
    IF pend = << >> THEN rows
    ELSE LET w == Head(pend)
             rest == {r \in rows : r.id # w.row.id}
         IN ApplyRows(IF w.tbl # tbl THEN rows
                      ELSE IF w.op = "del" THEN rest
                      ELSE rest \cup {w.row},
                      tbl, Tail(pend))

RECURSIVE Overwrite_ApplyCounters(_, _)
Overwrite_ApplyCounters(cnt, pend) ==
    IF pend = << >> THEN cnt
    ELSE LET w == Head(pend)
             key == << w.row.user_id, w.row.counter_key >>
         IN Overwrite_ApplyCounters(IF w.tbl # "user_counters" THEN cnt
                                    ELSE [cnt EXCEPT ![key] = w.row.value],
                                    Tail(pend))

RECURSIVE ApplyCounters(_, _)
ApplyCounters(cnt, pend) ==
    IF pend = << >> THEN cnt
    ELSE LET w == Head(pend)
             key == << w.row.user_id, w.row.counter_key >>
         IN ApplyCounters(IF w.tbl # "user_counters" THEN cnt
                          ELSE IF w.op = "inc"
                               THEN [cnt EXCEPT ![key] = (IF @ = NULL THEN 0 ELSE @) + w.row.value]
                               ELSE [cnt EXCEPT ![key] = w.row.value],
                          Tail(pend))

\* What a SELECT of session p returns: committed rows under the session's
\* own pending objects.
View(p, tbl) == ApplyRows(Committed(tbl), tbl, proc[p].pend)
CounterView(p) == ApplyCounters(user_counters, proc[p].pend)

HeldByOther(p, res) == \E l \in locks : l.res = res /\ l.p # p

Unflushed(pend) == {w \in Range(pend) : ~w.flushed}

\* A flush waits for the row locks of other transactions, and an INSERT
\* waits for an uncommitted INSERT of the same unique key.
FlushBlocked(p, pend) ==
    \E w \in Unflushed(pend) :
        \/ w.op \in {"upd", "del"} /\ HeldByOther(p, ResOf(w))
        \/ /\ w.op = "ins"
           /\ \E q \in Procs \ {p} : \E w2 \in Range(proc[q].pend) :
                 w2.flushed /\ w2.op = "ins" /\ w2.tbl = w.tbl
                 /\ SameUniqueKey(w.tbl, w.row, w2.row)

NoConstraint_UniqueViolated(pend) == FALSE

\* IntegrityError: the INSERT hits a committed row with its unique key.
UniqueViolated(pend) ==
    \E w \in Unflushed(pend) :
        /\ w.op = "ins"
        /\ \E r \in Committed(w.tbl) :
              /\ SameUniqueKey(w.tbl, w.row, r)
              /\ ~\E d \in Range(pend) : d.tbl = w.tbl /\ d.op = "del" /\ d.row.id = r.id

\* StaleDataError: the UPDATE of a persistent object whose row is gone.  (The
\* only DELETE of the engine, in award_badge, is a Core statement: when its
\* row is gone it matches nothing and raises nothing.)
StaleRow(pend) ==
    \E w \in Unflushed(pend) :
        /\ w.op = "upd"
        /\ ~\E r \in Committed(w.tbl) : r.id = w.row.id

FlushFails(pend) == UniqueViolated(pend) \/ StaleRow(pend)

FlushedPend(pend) == [i \in 1..Len(pend) |-> [pend[i] EXCEPT !.flushed = TRUE]]

LocksAfterFlush(p, pend) == locks \cup {[p |-> p, res |-> ResOf(w)] : w \in Unflushed(pend)}

\* The statement of p can run: the session is usable and its autoflush goes
\* through without waiting.
Ready(p, pend) == proc[p].valid /\ ~FlushBlocked(p, pend) /\ ~FlushFails(pend)

\* db.commit() of pend: the tables after it.
CommitTables(pend) ==
    /\ user_badges' = ApplyRows(user_badges, "user_badges", pend)
    /\ user_badge_progress' = ApplyRows(user_badge_progress, "user_badge_progress", pend)
    /\ user_quests' = ApplyRows(user_quests, "user_quests", pend)
    /\ user_counters' = ApplyCounters(user_counters, pend)
    /\ catalog' = catalog


(***************************************************************************)
(* History: which grant a pending credit pays for (no field of the code).  *)
(***************************************************************************)
NoSrc == << >>
Defs == BadgeIds \cup QuestIds
Days == 1..2
Scopes == Days \cup {NULL}

Credited(log, src, kind) ==
    IF src = NoSrc THEN log
    ELSE [log EXCEPT ![src] = IF kind = "xp" THEN [@ EXCEPT !.xp = @ + 1]
                                             ELSE [@ EXCEPT !.balance = @ + 1]]

\* What a request answers with: the dictionary award_xp returns, or the
\* progression of GET /me/progression.
NoResult ==
    [level |-> NULL, total_xp |-> NULL, xp_awarded |-> 0, level_increased |-> FALSE,
     progress_percent |-> NULL, xp_progress |-> NULL, value |-> NULL]

IdleProc == [st |-> "idle", stack |-> << >>, pend |-> << >>, valid |-> TRUE,
             err |-> "", op |-> [name |-> "none"], tries |-> 0, ret |-> NoResult]

\* A request or job starts: a fresh session running frame.
Started(op, frame) ==
    [st |-> "run", stack |-> << frame >>, pend |-> << >>, valid |-> TRUE,
     err |-> "", op |-> op, tries |-> 0, ret |-> NoResult]

(***************************************************************************)
(* app/core/progression.py: award_xp                                       *)
(***************************************************************************)
AwardXpFrame(user_id, xp_amount, src) ==
    [fn |-> "award_xp", pc |-> "select", user_id |-> user_id,
     xp_amount |-> xp_amount, src |-> src, user |-> NULL, loaded |-> FALSE]

\* award_xp called in a session that has loaded the User before (the
\* endpoint's current_user): the object is in the session's identity map.
LoadedAwardXpFrame(user_id, xp_amount, current_user) ==
    [AwardXpFrame(user_id, xp_amount, NoSrc) EXCEPT !.user = current_user, !.loaded = TRUE]

\* The caller of the top frame uses what it returns: the endpoints do, the
\* engine (award_badge, update_progress) does not.
UsesResult(stack) ==
    Len(stack) = 1 \/ stack[Len(stack) - 1].fn = "award_xp_to_user"

\* The dictionary award_xp returns.
AwardXpResult(level, total_xp, xp_awarded, level_increased) ==
    LET progression == get_progression_info(total_xp) IN
    [level |-> level, total_xp |-> total_xp, xp_awarded |-> xp_awarded,
     level_increased |-> level_increased,
     progress_percent |-> progression.progress_percent,
     xp_progress |-> progression.xp_progress, value |-> NULL]

\* The User object a SELECT of the session yields: an object the session
\* has loaded already keeps the attribute values it was loaded with (the
\* statements do not use populate_existing), a new one gets the row's.
Loaded(f) == IF f.loaded THEN f.user ELSE users[f.user_id]

\* The UPDATE of a flush sets the columns whose value differs from the one
\* the object was loaded with; the other columns keep the row's value.
Updated(row, was, now) ==
    [c \in DOMAIN row |-> IF now[c] # was[c] THEN now[c] ELSE row[c]]

\* select(User).where(User.id == user_id).with_for_update(): the statement
\* waits while another transaction holds the row.
LostUpdate_with_for_update(p, user_id) == TRUE

with_for_update(p, user_id) == ~HeldByOther(p, UserRes(user_id))

AwardXpSelect(p) ==
    /\ At(p, "award_xp", "select")
    /\ LET f == Top(p)
           pend == proc[p].pend
           flushed == [proc[p] EXCEPT !.pend = FlushedPend(pend)]
       IN /\ Ready(p, pend)
          /\ IF f.xp_amount = 0
             THEN Settle(p, Return([flushed EXCEPT !.ret =
                                       IF UsesResult(proc[p].stack)
                                       THEN AwardXpResult(Loaded(f).level, Loaded(f).xp, 0, FALSE)
                                       ELSE @]),
                         LocksAfterFlush(p, pend))
             ELSE /\ with_for_update(p, f.user_id)
                  /\ Settle(p, [flushed EXCEPT !.stack =
                                   SetTop(@, [f EXCEPT !.pc = "commit", !.user = Loaded(f)])],
                            LocksAfterFlush(p, pend) \cup {[p |-> p, res |-> UserRes(f.user_id)]})
    /\ UNCHANGED << users, tables, clock, today, next_id, reward_log, calls >>

AwardXpCommit(p) ==
    /\ At(p, "award_xp", "commit")
    /\ LET f == Top(p)
           pend == proc[p].pend
           new_xp == Max(0, f.user.xp + f.xp_amount)
           new_level == calculate_level_from_xp(new_xp)
       IN /\ Ready(p, pend)
          /\ users' = [users EXCEPT ![f.user_id] =
                          Updated(@, f.user, [f.user EXCEPT !.xp = new_xp, !.level = new_level])]
          /\ CommitTables(pend)
          /\ reward_log' = Credited(reward_log, f.src, "xp")
          /\ Settle(p, Return([proc[p] EXCEPT !.pend = << >>, !.ret =
                                  IF UsesResult(proc[p].stack)
                                  THEN AwardXpResult(new_level, new_xp, f.xp_amount,
                                                     new_level > f.user.level)
                                  ELSE @]),
                    Release(locks, p))
    /\ UNCHANGED << clock, today, next_id, calls >>

(***************************************************************************)
(* app/services/user_counters.py: increment_counter                        *)
(***************************************************************************)
IncrementCounterFrame(user_id, counter_key, amount) ==
    [fn |-> "increment_counter", pc |-> "upsert", user_id |-> user_id,
     counter_key |-> counter_key, amount |-> amount]

IncrementCounterUpsert(p) ==
    /\ At(p, "increment_counter", "upsert")
    /\ LET f == Top(p)
           pend == proc[p].pend
           w == [tbl |-> "user_counters", op |-> "inc", flushed |-> TRUE,
                 row |-> [user_id |-> f.user_id, counter_key |-> f.counter_key, value |-> f.amount]]
       IN IF f.amount <= 0
          THEN Settle(p, Return(proc[p]), locks)
          ELSE /\ Ready(p, pend)
               /\ ~HeldByOther(p, ResOf(w))
               /\ Settle(p, Return([proc[p] EXCEPT !.pend = Append(FlushedPend(pend), w)]),
                         LocksAfterFlush(p, pend) \cup {[p |-> p, res |-> ResOf(w)]})
    /\ UNCHANGED << users, tables, clock, today, next_id, reward_log, calls >>

(***************************************************************************)
(* app/services/user_counters.py: set_counter, get_counter                 *)
(***************************************************************************)
SetCounterFrame(user_id, counter_key, value) ==
    [fn |-> "set_counter", pc |-> "upsert", user_id |-> user_id,
     counter_key |-> counter_key, value |-> value]

GetCounterFrame(user_id, counter_key) ==
    [fn |-> "get_counter", pc |-> "select", user_id |-> user_id, counter_key |-> counter_key]

\* INSERT ... ON CONFLICT DO UPDATE SET value = excluded.value; flush.
SetCounterUpsert(p) ==
    /\ At(p, "set_counter", "upsert")
    /\ LET f == Top(p)
           pend == proc[p].pend
           w == [tbl |-> "user_counters", op |-> "set", flushed |-> TRUE,
                 row |-> [user_id |-> f.user_id, counter_key |-> f.counter_key, value |-> f.value]]
       IN /\ Ready(p, pend)
          /\ ~HeldByOther(p, ResOf(w))
          /\ Settle(p, Return([proc[p] EXCEPT !.pend = Append(FlushedPend(pend), w)]),
                    LocksAfterFlush(p, pend) \cup {[p |-> p, res |-> ResOf(w)]})
    /\ UNCHANGED << users, tables, clock, today, next_id, reward_log, calls >>

NoDefault_scalar_or_zero(counter) == counter

\* return counter if counter is not None else 0
scalar_or_zero(counter) == IF counter = NULL THEN 0 ELSE counter

\* select(UserCounter.value) of the pair; the value is the call's result.
GetCounterSelect(p) ==
    /\ At(p, "get_counter", "select")
    /\ LET f == Top(p)
           pend == proc[p].pend
           counter == CounterView(p)[<< f.user_id, f.counter_key >>]
       IN /\ Ready(p, pend)
          /\ Settle(p, Return([proc[p] EXCEPT !.pend = FlushedPend(pend),
                                              !.ret = [NoResult EXCEPT !.value = scalar_or_zero(counter)]]),
                    LocksAfterFlush(p, pend))
    /\ UNCHANGED << users, tables, clock, today, next_id, reward_log, calls >>

(***************************************************************************)
(* app/core/currency.py: add_currency, deduct_currency                     *)
(***************************************************************************)
ZeroAllowed_invalid_amount(amount) == amount < 0

\* Lines 42 and 109: if amount <= 0: raise ValueError("Amount must be positive").
invalid_amount(amount) == amount <= 0

AddCurrencyFrame(user_id, amount, src) ==
    [fn |-> "add_currency", pc |-> "select", user_id |-> user_id,
     amount |-> amount, src |-> src, user |-> NULL]

AddCurrencySelect(p) ==
    /\ At(p, "add_currency", "select")
    /\ LET f == Top(p)
           pend == proc[p].pend
       IN IF invalid_amount(f.amount)
          THEN Settle(p, Raise(proc[p], "Amount must be positive"), locks)
          ELSE /\ Ready(p, pend)
               /\ with_for_update(p, f.user_id)
               /\ Settle(p, [proc[p] EXCEPT !.pend = FlushedPend(pend), !.stack =
                                SetTop(@, [f EXCEPT !.pc = "commit", !.user = users[f.user_id]])],
                         LocksAfterFlush(p, pend) \cup {[p |-> p, res |-> UserRes(f.user_id)]})
    /\ UNCHANGED << users, tables, clock, today, next_id, reward_log, calls >>

\* user.balance = new_balance; commit; then the try block starts with
\* increment_counter(user_id, "currency_accumulated", amount, db).
AddCurrencyCommit(p) ==
    /\ At(p, "add_currency", "commit")
    /\ LET f == Top(p)
           pend == proc[p].pend
       IN /\ Ready(p, pend)
          /\ users' = [users EXCEPT ![f.user_id].balance = f.user.balance + f.amount]
          /\ CommitTables(pend)
          /\ reward_log' = Credited(reward_log, f.src, "balance")
          /\ Settle(p, Call([proc[p] EXCEPT !.pend = << >>], "update_progress",
                            IncrementCounterFrame(f.user_id, "currency_accumulated", f.amount)),
                    Release(locks, p))
    /\ UNCHANGED << clock, today, next_id, calls >>

AddCurrencyReturn(p) ==
    /\ At(p, "add_currency", "return")
    /\ Settle(p, Return(proc[p]), locks)
    /\ UNCHANGED << users, tables, clock, today, next_id, reward_log, calls >>

DeductCurrencyFrame(user_id, amount) ==
    [fn |-> "deduct_currency", pc |-> "select", user_id |-> user_id,
     amount |-> amount, user |-> NULL]

DeductCurrencySelect(p) ==
    /\ At(p, "deduct_currency", "select")
    /\ LET f == Top(p)
           pend == proc[p].pend
       IN IF invalid_amount(f.amount)
          THEN Settle(p, Raise(proc[p], "Amount must be positive"), locks)
          ELSE /\ Ready(p, pend)
               /\ with_for_update(p, f.user_id)
               /\ Settle(p, [proc[p] EXCEPT !.pend = FlushedPend(pend), !.stack =
                                SetTop(@, [f EXCEPT !.pc = "check", !.user = users[f.user_id]])],
                         LocksAfterFlush(p, pend) \cup {[p |-> p, res |-> UserRes(f.user_id)]})
    /\ UNCHANGED << users, tables, clock, today, next_id, reward_log, calls >>

NoFundsCheck_sufficient(balance, amount) == TRUE

sufficient(balance, amount) == ~(balance < amount)

DeductCurrencyCheck(p) ==
    /\ At(p, "deduct_currency", "check")
    /\ LET f == Top(p)
           pend == proc[p].pend
       IN IF ~sufficient(f.user.balance, f.amount)
          THEN /\ Settle(p, Raise(proc[p], "Insufficient funds"), locks)
               /\ UNCHANGED << users, tables >>
          ELSE /\ Ready(p, pend)
               /\ users' = [users EXCEPT ![f.user_id].balance = f.user.balance - f.amount]
               /\ CommitTables(pend)
               /\ Settle(p, Return([proc[p] EXCEPT !.pend = << >>]), Release(locks, p))
    /\ UNCHANGED << clock, today, next_id, reward_log, calls >>


(***************************************************************************)
(* A statement fails: the session was left unusable by an earlier failed   *)
(* flush (PendingRollbackError), or its autoflush fails (IntegrityError,   *)
(* StaleDataError), which rolls the transaction back.                      *)
(***************************************************************************)
RolledBack(pr) == [pr EXCEPT !.pend = << >>, !.valid = FALSE]

FailedProc(p, pend) ==
    IF ~proc[p].valid THEN Raise(proc[p], "PendingRollbackError")
    ELSE Raise(RolledBack(proc[p]), IF UniqueViolated(pend) THEN "IntegrityError" ELSE "StaleDataError")

FailedLocks(p) == IF ~proc[p].valid THEN locks ELSE Release(locks, p)

Fails(p, pend) == ~FlushBlocked(p, pend) /\ (~proc[p].valid \/ FlushFails(pend))

(***************************************************************************)
(* app/services/badge_progress.py: award_badge                             *)
(***************************************************************************)
NotFound_UserBadgeRows(p, user_id, badge_id) == {}

\* select(UserBadge).where(user_id == ..., badge_id == ...)
UserBadgeRows(p, user_id, badge_id) ==
    {r \in View(p, "user_badges") : r.user_id = user_id /\ r.badge_id = badge_id}

Dated_Active(row, now) == row.expires_at # NULL /\ row.expires_at > now

Inverted_Active(row, now) == row.expires_at = NULL \/ row.expires_at < now

\* Line 200 (and 338): if existing.expires_at is None or existing.expires_at > now.
Active(row, now) == row.expires_at = NULL \/ row.expires_at > now

AwardBadgeFrame(user_id, badge_id, expires_at, is_first_time) ==
    [fn |-> "award_badge", pc |-> "select_existing", user_id |-> user_id,
     badge_id |-> badge_id, expires_at |-> expires_at,
     is_first_time |-> is_first_time, existing |-> NULL]

PaysAgain_AwardBadgeRewards(pr, f) ==
    IF badges[f.badge_id].reward_xp > 0
    THEN Call(pr, "reward_balance",
              AwardXpFrame(f.user_id, badges[f.badge_id].reward_xp, << f.user_id, f.badge_id, NULL >>))
    ELSE [pr EXCEPT !.stack = Goto(@, "reward_balance")]

\* Lines 217-229: the rewards of a first-time grant, then the insert.
AwardBadgeRewards(pr, f) ==
    IF f.is_first_time /\ badges[f.badge_id].reward_xp > 0
    THEN Call(pr, "reward_balance",
              AwardXpFrame(f.user_id, badges[f.badge_id].reward_xp, << f.user_id, f.badge_id, NULL >>))
    ELSE [pr EXCEPT !.stack = Goto(@, "reward_balance")]

AwardBadgeSelectExisting(p) ==
    /\ At(p, "award_badge", "select_existing")
    /\ LET f == Top(p)
           pend == proc[p].pend
           flushed == [proc[p] EXCEPT !.pend = FlushedPend(pend)]
           existing == UserBadgeRows(p, f.user_id, f.badge_id)
       IN /\ Ready(p, pend)
          /\ IF existing = {}
             THEN Settle(p, AwardBadgeRewards(flushed, f), LocksAfterFlush(p, pend))
             ELSE LET e == CHOOSE r \in existing : TRUE IN
                  IF Active(e, clock)
                  THEN Settle(p, Return(flushed), LocksAfterFlush(p, pend))
                  ELSE Settle(p, [flushed EXCEPT !.stack =
                                     SetTop(@, [f EXCEPT !.pc = "delete", !.existing = e])],
                              LocksAfterFlush(p, pend))
    /\ UNCHANGED << users, tables, clock, today, next_id, reward_log, calls >>

\* delete(UserBadge).where(UserBadge.id == existing.id); commit.
AwardBadgeDelete(p) ==
    /\ At(p, "award_badge", "delete")
    /\ LET f == Top(p)
           del == [tbl |-> "user_badges", op |-> "del", row |-> f.existing, flushed |-> TRUE]
           pend == Append(proc[p].pend, del)
       IN /\ Ready(p, pend)
          /\ ~HeldByOther(p, ResOf(del))
          /\ CommitTables(pend)
          /\ Settle(p, AwardBadgeRewards([proc[p] EXCEPT !.pend = << >>], f), Release(locks, p))
    /\ UNCHANGED << users, clock, today, next_id, reward_log, calls >>

AwardBadgeRewardBalance(p) ==
    /\ At(p, "award_badge", "reward_balance")
    /\ LET f == Top(p) IN
       IF f.is_first_time /\ badges[f.badge_id].reward_balance > 0
       THEN Settle(p, Call(proc[p], "insert",
                           AddCurrencyFrame(f.user_id, badges[f.badge_id].reward_balance,
                                            << f.user_id, f.badge_id, NULL >>)), locks)
       ELSE Settle(p, [proc[p] EXCEPT !.stack = Goto(@, "insert")], locks)
    /\ UNCHANGED << users, tables, clock, today, next_id, reward_log, calls >>

\* db.add(UserBadge(...)); commit: the INSERT is checked against
\* uq_user_badge.
AwardBadgeInsert(p) ==
    /\ At(p, "award_badge", "insert")
    /\ LET f == Top(p)
           row == [id |-> next_id, user_id |-> f.user_id, badge_id |-> f.badge_id,
                   expires_at |-> f.expires_at]
           pend == Append(proc[p].pend, Write("user_badges", "ins", row))
       IN /\ ~FlushBlocked(p, pend)
          /\ IF Fails(p, pend)
             THEN /\ Settle(p, FailedProc(p, pend), FailedLocks(p))
                  /\ UNCHANGED << tables, next_id >>
             ELSE /\ CommitTables(pend)
                  /\ next_id' = next_id + 1
                  /\ Settle(p, IF f.is_first_time
                               THEN [proc[p] EXCEPT !.pend = << >>, !.stack = Goto(@, "notify")]
                               ELSE Return([proc[p] EXCEPT !.pend = << >>]),
                            Release(locks, p))
    /\ UNCHANGED << users, clock, today, reward_log, calls >>

\* The INSERT of the notification or of the activity fails for a reason of
\* its own when the call is made with such an outcome.
OwnSideEffectFailure(p) ==
    "side_effects" \in DOMAIN proc[p].op /\ proc[p].op.side_effects = "fail"

\* create_notification and create_activity: each commits; a failure is
\* caught inside them and answered with db.rollback().
SideEffects(p, pr) ==
    LET pend == proc[p].pend IN
    /\ ~FlushBlocked(p, pend)
    /\ IF Fails(p, pend) \/ OwnSideEffectFailure(p)
       THEN /\ UNCHANGED tables
            /\ Settle(p, [pr EXCEPT !.pend = << >>, !.valid = TRUE], Release(locks, p))
       ELSE /\ CommitTables(pend)
            /\ Settle(p, [pr EXCEPT !.pend = << >>], Release(locks, p))

AwardBadgeNotify(p) ==
    /\ At(p, "award_badge", "notify")
    /\ SideEffects(p, Return(proc[p]))
    /\ UNCHANGED << users, clock, today, next_id, reward_log, calls >>

(***************************************************************************)
(* app/services/badge_progress.py: extend_or_award_badge                   *)
(***************************************************************************)
ExtendOrAwardFrame(user_id, badge_id) ==
    [fn |-> "extend_or_award_badge", pc |-> "select_existing", user_id |-> user_id,
     badge_id |-> badge_id, now |-> NULL, existing |-> NULL]

AlreadyOver_ExpiresAt(badge_id, now) ==
    IF badges[badge_id].badge_type = "temporary" THEN now ELSE NULL

\* Lines 319-323: a temporary badge is granted for one hour.
ExpiresAt(badge_id, now) ==
    IF badges[badge_id].badge_type = "temporary" THEN now + Hour ELSE NULL

ExtendSelectExisting(p) ==
    /\ At(p, "extend_or_award_badge", "select_existing")
    /\ LET f == Top(p)
           pend == proc[p].pend
           flushed == [proc[p] EXCEPT !.pend = FlushedPend(pend)]
           now == clock
           expires_at == ExpiresAt(f.badge_id, now)
           existing == UserBadgeRows(p, f.user_id, f.badge_id)
       IN /\ Ready(p, pend)
          /\ IF existing = {}
             THEN Settle(p, Call(flushed, "return",
                                 AwardBadgeFrame(f.user_id, f.badge_id, expires_at, TRUE)),
                         LocksAfterFlush(p, pend))
             ELSE LET e == CHOOSE r \in existing : TRUE IN
                  IF Active(e, now)
                  THEN IF badges[f.badge_id].badge_type = "temporary" /\ e.expires_at # NULL
                       THEN Settle(p, [flushed EXCEPT !.stack =
                                          SetTop(@, [f EXCEPT !.pc = "extend", !.now = now, !.existing = e])],
                                   LocksAfterFlush(p, pend))
                       ELSE Settle(p, Return(flushed), LocksAfterFlush(p, pend))
                  ELSE Settle(p, Call(flushed, "return",
                                      AwardBadgeFrame(f.user_id, f.badge_id, expires_at, FALSE)),
                              LocksAfterFlush(p, pend))
    /\ UNCHANGED << users, tables, clock, today, next_id, reward_log, calls >>

\* existing.expires_at = now + timedelta(hours=1); commit.
ExtendCommit(p) ==
    /\ At(p, "extend_or_award_badge", "extend")
    /\ LET f == Top(p)
           pend == Put(proc[p].pend, "user_badges", [f.existing EXCEPT !.expires_at = f.now + Hour])
       IN /\ ~FlushBlocked(p, pend)
          /\ IF Fails(p, pend)
             THEN /\ Settle(p, FailedProc(p, pend), FailedLocks(p))
                  /\ UNCHANGED tables
             ELSE /\ CommitTables(pend)
                  /\ Settle(p, Return([proc[p] EXCEPT !.pend = << >>]), Release(locks, p))
    /\ UNCHANGED << users, clock, today, next_id, reward_log, calls >>

ExtendReturn(p) ==
    /\ At(p, "extend_or_award_badge", "return")
    /\ Settle(p, Return(proc[p]), locks)
    /\ UNCHANGED << users, tables, clock, today, next_id, reward_log, calls >>

(***************************************************************************)
(* app/services/badge_progress.py: update_progress                         *)
(***************************************************************************)
BadgeUpdateFrame(condition_key, user_id, increment) ==
    [fn |-> "badge_update_progress", pc |-> "select_badges",
     condition_key |-> condition_key, user_id |-> user_id,
     increment |-> increment, todo |-> << >>]

BadgeUpdateSelectBadges(p) ==
    /\ At(p, "badge_update_progress", "select_badges")
    /\ LET f == Top(p)
           pend == proc[p].pend
           flushed == [proc[p] EXCEPT !.pend = FlushedPend(pend)]
           found == SeqOf({b \in BadgeIds : badges[b].condition_key = f.condition_key})
       IN IF f.increment = 0
          THEN Settle(p, Return(proc[p]), locks)
          ELSE /\ Ready(p, pend)
               /\ IF found = << >>
                  THEN Settle(p, Return(flushed), LocksAfterFlush(p, pend))
                  ELSE Settle(p, [flushed EXCEPT !.stack =
                                     SetTop(@, [f EXCEPT !.pc = "select_progress", !.todo = found])],
                              LocksAfterFlush(p, pend))
    /\ UNCHANGED << users, tables, clock, today, next_id, reward_log, calls >>

\* The loop moves on to the next badge, or to the final commit.
BadgeUpdateAdvance(f) ==
    [f EXCEPT !.todo = Tail(@),
              !.pc = IF Len(f.todo) > 1 THEN "select_progress" ELSE "commit"]

NeverFrozen_Frozen(row) == FALSE

\* "if not progress.completed_at" / "if user_quest.completed_at is None":
\* a completed record is left alone.
Frozen(row) == row.completed_at # NULL

Early_Reached(target_value, progress) ==
    target_value # NULL /\ target_value # 0 /\ progress + 1 >= target_value

Untested_Reached(target_value, progress) == progress >= target_value

\* Line 102: if badge.target_value and progress.progress >= target_value.
Reached(target_value, progress) ==
    target_value # NULL /\ target_value # 0 /\ progress >= target_value

\* Lines 79-103: get or create the progress row, add the increment unless
\* it is completed, and mark it completed when the target is reached.
BadgeUpdateSelectProgress(p) ==
    /\ At(p, "badge_update_progress", "select_progress")
    /\ LET f == Top(p)
           b == Head(f.todo)
           pend == proc[p].pend
           found == {r \in View(p, "user_badge_progress") :
                        r.user_id = f.user_id /\ r.badge_id = b}
           isnew == found = {}
           old == IF isnew
                  THEN [id |-> next_id, user_id |-> f.user_id, badge_id |-> b,
                        progress |-> 0, completed_at |-> NULL]
                  ELSE CHOOSE r \in found : TRUE
           added == [old EXCEPT !.progress = @ + f.increment]
           done == Reached(badges[b].target_value, added.progress)
           new == IF Frozen(old) THEN old
                  ELSE IF done THEN [added EXCEPT !.completed_at = clock]
                  ELSE added
           pend1 == IF isnew THEN Append(FlushedPend(pend), Write("user_badge_progress", "ins", new))
                    ELSE IF new # old THEN Put(FlushedPend(pend), "user_badge_progress", new)
                    ELSE FlushedPend(pend)
       IN /\ Ready(p, pend)
          /\ next_id' = IF isnew THEN next_id + 1 ELSE next_id
          /\ Settle(p, [proc[p] EXCEPT !.pend = pend1, !.stack =
                           SetTop(@, IF ~Frozen(old) /\ done
                                     THEN [f EXCEPT !.pc = "select_existing"]
                                     ELSE BadgeUpdateAdvance(f))],
                    LocksAfterFlush(p, pend))
    /\ UNCHANGED << users, tables, clock, today, reward_log, calls >>

\* Lines 104-119: flush, look for the grant, award the badge if there is
\* none.
BadgeUpdateSelectExisting(p) ==
    /\ At(p, "badge_update_progress", "select_existing")
    /\ LET f == Top(p)
           b == Head(f.todo)
           pend == proc[p].pend
           flushed == [proc[p] EXCEPT !.pend = FlushedPend(pend)]
       IN /\ Ready(p, pend)
          /\ IF UserBadgeRows(p, f.user_id, b) = {}
             THEN Settle(p, Call(flushed, "next", AwardBadgeFrame(f.user_id, b, NULL, TRUE)),
                         LocksAfterFlush(p, pend))
             ELSE Settle(p, [flushed EXCEPT !.stack = SetTop(@, BadgeUpdateAdvance(f))],
                         LocksAfterFlush(p, pend))
    /\ UNCHANGED << users, tables, clock, today, next_id, reward_log, calls >>

BadgeUpdateNext(p) ==
    /\ At(p, "badge_update_progress", "next")
    /\ Settle(p, [proc[p] EXCEPT !.stack = SetTop(@, BadgeUpdateAdvance(Top(p)))], locks)
    /\ UNCHANGED << users, tables, clock, today, next_id, reward_log, calls >>

BadgeUpdateCommit(p) ==
    /\ At(p, "badge_update_progress", "commit")
    /\ LET pend == proc[p].pend IN
       /\ Ready(p, pend)
       /\ CommitTables(pend)
       /\ Settle(p, Return([proc[p] EXCEPT !.pend = << >>]), Release(locks, p))
    /\ UNCHANGED << users, clock, today, next_id, reward_log, calls >>

\* add_currency, line 72: update_progress("currency_accumulated", ...).
AddCurrencyUpdateProgress(p) ==
    /\ At(p, "add_currency", "update_progress")
    /\ LET f == Top(p) IN
       Settle(p, Call(proc[p], "return",
                      BadgeUpdateFrame("currency_accumulated", f.user_id, f.amount)), locks)
    /\ UNCHANGED << users, tables, clock, today, next_id, reward_log, calls >>

(***************************************************************************)
(* check_periodic_badges and XPLeaderHandler (badge_conditions.py)         *)
(***************************************************************************)
PeriodicFrame ==
    [fn |-> "check_periodic_badges", pc |-> "select_badges", todo |-> << >>]

CheckAndExtendFrame(badge_id) ==
    [fn |-> "check_and_extend_or_award", pc |-> "get_leader", badge_id |-> badge_id]

\* Lines 371-390: the loop over the auto_check badges, up to the next call
\* of a handler's check_and_extend_or_award.
RECURSIVE PeriodicLoop(_, _)
PeriodicLoop(pr, todo) ==
    IF todo = << >> THEN Return(pr)
    ELSE LET key == badges[Head(todo)].condition_key IN
         IF key \in CONDITION_HANDLERS /\ key \in PeriodicHandlers
         THEN Call([pr EXCEPT !.stack = SetTop(@, [@[Len(@)] EXCEPT !.todo = todo])],
                   "next", CheckAndExtendFrame(Head(todo)))
         ELSE PeriodicLoop(pr, Tail(todo))

PeriodicSelectBadges(p) ==
    /\ At(p, "check_periodic_badges", "select_badges")
    /\ LET pend == proc[p].pend IN
       /\ Ready(p, pend)
       /\ Settle(p, PeriodicLoop([proc[p] EXCEPT !.pend = FlushedPend(pend)],
                                 SeqOf({b \in BadgeIds : badges[b].auto_check})),
                 LocksAfterFlush(p, pend))
    /\ UNCHANGED << users, tables, clock, today, next_id, reward_log, calls >>

PeriodicNext(p) ==
    /\ At(p, "check_periodic_badges", "next")
    /\ Settle(p, PeriodicLoop(proc[p], Tail(Top(p).todo)), locks)
    /\ UNCHANGED << users, tables, clock, today, next_id, reward_log, calls >>

Lowest_Leaders == {u \in Users : \A v \in Users : users[u].xp <= users[v].xp}

\* The rows of the users table: every user, unless the initial database is
\* said to hold fewer accounts.
Accounts == IF "accounts" \in DOMAIN catalog THEN catalog.accounts ELSE Users

Unordered_Leaders == Accounts

\* select(User).order_by(desc(User.xp)).limit(1): any user of maximal xp.
Leaders == {u \in Accounts : \A v \in Accounts : users[u].xp >= users[v].xp}

GetLeader(p) ==
    /\ At(p, "check_and_extend_or_award", "get_leader")
    /\ LET f == Top(p)
           pend == proc[p].pend
       IN /\ Ready(p, pend)
          /\ IF Leaders = {}
             THEN Settle(p, Return([proc[p] EXCEPT !.pend = FlushedPend(pend)]),
                         LocksAfterFlush(p, pend))
             ELSE \E leader \in Leaders :
                     Settle(p, Call([proc[p] EXCEPT !.pend = FlushedPend(pend),
                                                    !.op.leader = leader],
                                    "return",
                                    ExtendOrAwardFrame(leader, f.badge_id)),
                            LocksAfterFlush(p, pend))
    /\ UNCHANGED << users, tables, clock, today, next_id, reward_log, calls >>

CheckAndExtendReturn(p) ==
    /\ At(p, "check_and_extend_or_award", "return")
    /\ Settle(p, Return(proc[p]), locks)
    /\ UNCHANGED << users, tables, clock, today, next_id, reward_log, calls >>

(***************************************************************************)
(* app/api/v1/endpoints/badges.py: award_badge (admin)                     *)
(***************************************************************************)
AdminAwardFrame(user_id, badge_id, expires_at) ==
    [fn |-> "admin_award_badge", pc |-> "select_existing", user_id |-> user_id,
     badge_id |-> badge_id, expires_at |-> expires_at]

AdminAwardSelectExisting(p) ==
    /\ At(p, "admin_award_badge", "select_existing")
    /\ LET f == Top(p)
           pend == proc[p].pend
           flushed == [proc[p] EXCEPT !.pend = FlushedPend(pend)]
       IN /\ Ready(p, pend)
          /\ IF UserBadgeRows(p, f.user_id, f.badge_id) # {}
             THEN Settle(p, Raise(flushed, "User already has this badge"), LocksAfterFlush(p, pend))
             ELSE IF badges[f.badge_id].badge_type = "temporary" /\ f.expires_at = NULL
             THEN Settle(p, Raise(flushed, "expires_at is required for temporary badges"),
                         LocksAfterFlush(p, pend))
             ELSE Settle(p, [flushed EXCEPT !.stack = Goto(@, "insert")], LocksAfterFlush(p, pend))
    /\ UNCHANGED << users, tables, clock, today, next_id, reward_log, calls >>

AdminAwardInsert(p) ==
    /\ At(p, "admin_award_badge", "insert")
    /\ LET f == Top(p)
           row == [id |-> next_id, user_id |-> f.user_id, badge_id |-> f.badge_id,
                   expires_at |-> f.expires_at]
           pend == Append(proc[p].pend, Write("user_badges", "ins", row))
       IN /\ ~FlushBlocked(p, pend)
          /\ IF Fails(p, pend)
             THEN /\ Settle(p, FailedProc(p, pend), FailedLocks(p))
                  /\ UNCHANGED << tables, next_id >>
             ELSE /\ CommitTables(pend)
                  /\ next_id' = next_id + 1
                  /\ Settle(p, Return([proc[p] EXCEPT !.pend = << >>]), Release(locks, p))
    /\ UNCHANGED << users, clock, today, reward_log, calls >>

(***************************************************************************)
(* app/services/quest_progress.py: update_progress                         *)
(***************************************************************************)
QuestUpdateFrame(condition_key, user_id, increment, absolute_value) ==
    [fn |-> "quest_update_progress", pc |-> "select_quests",
     condition_key |-> condition_key, user_id |-> user_id, increment |-> increment,
     absolute_value |-> absolute_value, todo |-> << >>, today |-> NULL, user_quest |-> NULL]

Inactive_ActiveQuests(condition_key) ==
    {q \in QuestIds : quests[q].condition_key = condition_key}

\* select(Quest).where(Quest.condition_key == condition_key, Quest.is_active)
ActiveQuests(condition_key) ==
    {q \in QuestIds : quests[q].condition_key = condition_key /\ quests[q].is_active}

QuestSelectQuests(p) ==
    /\ At(p, "quest_update_progress", "select_quests")
    /\ LET f == Top(p)
           pend == proc[p].pend
           flushed == [proc[p] EXCEPT !.pend = FlushedPend(pend)]
           found == SeqOf(ActiveQuests(f.condition_key))
       IN /\ Ready(p, pend)
          /\ IF found = << >>
             THEN Settle(p, Return(flushed), LocksAfterFlush(p, pend))
             ELSE Settle(p, [flushed EXCEPT !.stack =
                                SetTop(@, [f EXCEPT !.pc = "select_user_quest", !.todo = found,
                                                    !.today = today])],
                         LocksAfterFlush(p, pend))
    /\ UNCHANGED << users, tables, clock, today, next_id, reward_log, calls >>

\* The loop moves on to the next quest, or to the final commit.
QuestAdvance(f) ==
    [f EXCEPT !.todo = Tail(@), !.user_quest = NULL,
              !.pc = IF Len(f.todo) > 1 THEN "select_user_quest" ELSE "commit"]

\* quest_date of the record: today for a daily quest, NULL otherwise.
Scope(q, day) == IF quests[q].quest_type = "daily" THEN day ELSE NULL

\* Lines 56-99: the user's record of the quest for the scope, created with
\* progress 0 when there is none.
QuestSelectUserQuest(p) ==
    /\ At(p, "quest_update_progress", "select_user_quest")
    /\ LET f == Top(p)
           q == Head(f.todo)
           pend == proc[p].pend
           flushed == [proc[p] EXCEPT !.pend = FlushedPend(pend)]
           found == {r \in View(p, "user_quests") :
                        r.user_id = f.user_id /\ r.quest_id = q
                        /\ r.quest_date = Scope(q, f.today)}
           new == [id |-> next_id, user_id |-> f.user_id, quest_id |-> q,
                   quest_date |-> Scope(q, f.today), progress |-> 0,
                   completed_at |-> NULL, claimed_at |-> NULL]
           uq == IF found = {} THEN new ELSE CHOOSE r \in found : TRUE
           pend1 == IF found = {} THEN Append(flushed.pend, Write("user_quests", "ins", new))
                    ELSE flushed.pend
       IN /\ Ready(p, pend)
          /\ next_id' = IF found = {} THEN next_id + 1 ELSE next_id
          /\ IF Cardinality(found) > 1
             THEN Settle(p, Raise(flushed, "MultipleResultsFound"), LocksAfterFlush(p, pend))
             ELSE Settle(p, [flushed EXCEPT !.pend = pend1, !.stack =
                                SetTop(@, IF ~Frozen(uq)
                                          THEN [f EXCEPT !.pc = "get_counter", !.user_quest = uq]
                                          ELSE QuestAdvance(f))],
                         LocksAfterFlush(p, pend))
    /\ UNCHANGED << users, tables, clock, today, reward_log, calls >>

\* Lines 105-114: the counter wins when it is positive, then the absolute
\* value (never below the current progress), then the increment.
AbsoluteFirst_NewProgress(progress, counter_value, absolute_value, increment) ==
    IF absolute_value # NULL THEN Max(progress, absolute_value)
    ELSE IF counter_value > 0 THEN counter_value
    ELSE progress + increment

NewProgress(progress, counter_value, absolute_value, increment) ==
    IF counter_value > 0 THEN counter_value
    ELSE IF absolute_value # NULL THEN Max(progress, absolute_value)
    ELSE progress + increment

Unclaimed_CompletedQuest(user_quest, now) == [user_quest EXCEPT !.completed_at = now]

\* Lines 120-122: completed_at = now; claimed_at = now (the reward is given
\* automatically).
CompletedQuest(user_quest, now) ==
    [user_quest EXCEPT !.completed_at = now, !.claimed_at = now]

\* Lines 102-121: get_counter (which answers 0 when its SELECT fails), the
\* new progress, and the completion when the target is reached.
QuestGetCounter(p) ==
    /\ At(p, "quest_update_progress", "get_counter")
    /\ LET f == Top(p)
           q == Head(f.todo)
           pend == proc[p].pend
           failed == Fails(p, pend)
           pr == IF ~failed THEN [proc[p] EXCEPT !.pend = FlushedPend(pend)]
                 ELSE IF proc[p].valid THEN RolledBack(proc[p])
                 ELSE proc[p]
           value == IF f.condition_key \in CounterKeys
                    THEN CounterView(p)[<< f.user_id, f.condition_key >>]
                    ELSE NULL
           counter_value == IF failed \/ value = NULL THEN 0 ELSE value
           progress == NewProgress(f.user_quest.progress, counter_value,
                                   f.absolute_value, f.increment)
           done == Reached(quests[q].target_value, progress)
           uq == IF done
                 THEN CompletedQuest([f.user_quest EXCEPT !.progress = progress], clock)
                 ELSE [f.user_quest EXCEPT !.progress = progress]
           pend1 == IF uq = f.user_quest \/ failed THEN pr.pend
                    ELSE Put(pr.pend, "user_quests", uq)
       IN /\ ~FlushBlocked(p, pend)
          /\ Settle(p, [pr EXCEPT !.pend = pend1, !.stack =
                           SetTop(@, IF done THEN [f EXCEPT !.pc = "flush", !.user_quest = uq]
                                     ELSE QuestAdvance(f))],
                    IF failed THEN FailedLocks(p) ELSE LocksAfterFlush(p, pend))
    /\ UNCHANGED << users, tables, clock, today, next_id, reward_log, calls >>

\* Lines 122-131: db.flush(), then the xp reward.
QuestFlush(p) ==
    /\ At(p, "quest_update_progress", "flush")
    /\ LET f == Top(p)
           q == Head(f.todo)
           pend == proc[p].pend
           flushed == [proc[p] EXCEPT !.pend = FlushedPend(pend)]
           src == << f.user_id, q, f.user_quest.quest_date >>
       IN /\ Ready(p, pend)
          /\ IF quests[q].reward_xp > 0
             THEN Settle(p, Call(flushed, "reward_balance",
                                 AwardXpFrame(f.user_id, quests[q].reward_xp, src)),
                         LocksAfterFlush(p, pend))
             ELSE Settle(p, [flushed EXCEPT !.stack = Goto(@, "reward_balance")],
                         LocksAfterFlush(p, pend))
    /\ UNCHANGED << users, tables, clock, today, next_id, reward_log, calls >>

QuestRewardBalance(p) ==
    /\ At(p, "quest_update_progress", "reward_balance")
    /\ LET f == Top(p)
           q == Head(f.todo)
           src == << f.user_id, q, f.user_quest.quest_date >>
       IN IF quests[q].reward_balance > 0
          THEN Settle(p, Call(proc[p], "notify",
                              AddCurrencyFrame(f.user_id, quests[q].reward_balance, src)), locks)
          ELSE Settle(p, [proc[p] EXCEPT !.stack = Goto(@, "notify")], locks)
    /\ UNCHANGED << users, tables, clock, today, next_id, reward_log, calls >>

\* Lines 141-203: the notification of an achievement (create_notification
\* rolls back on failure) and the activity events, whose first statement is
\* a SELECT inside the try block.
QuestNotify(p) ==
    /\ At(p, "quest_update_progress", "notify")
    /\ LET f == Top(p)
           pend == proc[p].pend
           pr == [proc[p] EXCEPT !.stack = SetTop(@, QuestAdvance(f))]
       IN IF quests[Head(f.todo)].quest_type = "achievement" \/ ~Fails(p, pend)
          THEN SideEffects(p, pr)
          ELSE /\ ~FlushBlocked(p, pend)
               /\ Settle(p, IF pr.valid THEN RolledBack(pr) ELSE pr, FailedLocks(p))
               /\ UNCHANGED tables
    /\ UNCHANGED << users, clock, today, next_id, reward_log, calls >>

QuestCommit(p) ==
    /\ At(p, "quest_update_progress", "commit")
    /\ LET pend == proc[p].pend IN
       /\ Ready(p, pend)
       /\ CommitTables(pend)
       /\ Settle(p, Return([proc[p] EXCEPT !.pend = << >>]), Release(locks, p))
    /\ UNCHANGED << users, clock, today, next_id, reward_log, calls >>

(***************************************************************************)
(* app/api/v1/endpoints/users.py: GET /me/progression, POST /me/award-xp   *)
(* and POST /me/reset-progression.  Each depends on deps.get_current_user, *)
(* which loads the User in the request's session.                          *)
(***************************************************************************)
GetProgressionFrame(user_id) ==
    [fn |-> "get_progression", pc |-> "get_current_user", user_id |-> user_id]

AwardXpToUserFrame(user_id, xp_amount) ==
    [fn |-> "award_xp_to_user", pc |-> "get_current_user", user_id |-> user_id,
     xp_amount |-> xp_amount]

ResetProgressionFrame(user_id) ==
    [fn |-> "reset_progression", pc |-> "get_current_user", user_id |-> user_id,
     current_user |-> NULL]

\* deps.get_current_user: select(User).where(User.id == user_id); then the
\* endpoint's body up to its first await.
GetCurrentUser(p) ==
    /\ proc[p].st = "run"
    /\ Top(p).pc = "get_current_user"
    /\ LET f == Top(p)
           current_user == users[f.user_id]
       IN /\ Ready(p, proc[p].pend)
          /\ CASE f.fn = "get_progression" ->
                    LET progression == get_progression_info(current_user.xp) IN
                    Settle(p, Return([proc[p] EXCEPT !.ret =
                                         [NoResult EXCEPT !.level = progression.level,
                                                          !.total_xp = progression.total_xp,
                                                          !.progress_percent = progression.progress_percent,
                                                          !.xp_progress = progression.xp_progress]]),
                           locks)
               [] f.fn = "award_xp_to_user" ->
                    Settle(p, Call(proc[p], "return",
                                   LoadedAwardXpFrame(f.user_id, f.xp_amount, current_user)), locks)
               [] f.fn = "reset_progression" ->
                    Settle(p, [proc[p] EXCEPT !.stack =
                                  SetTop(@, [f EXCEPT !.pc = "commit", !.current_user = current_user])],
                           locks)
    /\ UNCHANGED << users, tables, clock, today, next_id, reward_log, calls >>

AwardXpToUserReturn(p) ==
    /\ At(p, "award_xp_to_user", "return")
    /\ Settle(p, Return(proc[p]), locks)
    /\ UNCHANGED << users, tables, clock, today, next_id, reward_log, calls >>

\* current_user.xp = 0; current_user.level = 1; commit: the UPDATE waits
\* for a transaction that holds the row.
ResetProgressionCommit(p) ==
    /\ At(p, "reset_progression", "commit")
    /\ LET f == Top(p)
           reset == [f.current_user EXCEPT !.xp = 0, !.level = 1]
           progression == get_progression_info(0)
       IN /\ Ready(p, proc[p].pend)
          /\ reset # f.current_user => ~HeldByOther(p, UserRes(f.user_id))
          /\ users' = [users EXCEPT ![f.user_id] = Updated(@, f.current_user, reset)]
          /\ Settle(p, Return([proc[p] EXCEPT !.ret =
                                  [NoResult EXCEPT !.level = progression.level,
                                                   !.total_xp = progression.total_xp,
                                                   !.progress_percent = progression.progress_percent,
                                                   !.xp_progress = progression.xp_progress]]),
                    Release(locks, p))
    /\ UNCHANGED << tables, clock, today, next_id, reward_log, calls >>

(***************************************************************************)
(* app/services/quest_progress.py: initialize_daily_quests_for_user,       *)
(* initialize_achievement_quests_for_user, check_initial_quest_conditions  *)
(***************************************************************************)
InitializeDailyFrame(user_id, target_date) ==
    [fn |-> "initialize_daily_quests_for_user", pc |-> "select", user_id |-> user_id,
     target_date |-> target_date, selected |-> << >>]

InitializeAchievementFrame(user_id) ==
    [fn |-> "initialize_achievement_quests_for_user", pc |-> "select", user_id |-> user_id,
     target_date |-> NULL, selected |-> << >>]

CheckInitialFrame(user_id, quest_list) ==
    [fn |-> "check_initial_quest_conditions", pc |-> "next", user_id |-> user_id,
     todo |-> quest_list]

SampleSize == 3

Min(a, b) == IF a < b THEN a ELSE b

Whole_Samples(available_quests) == {available_quests}

\* random.sample(available_quests, min(3, len(available_quests)))
Samples(available_quests) ==
    {S \in SUBSET available_quests :
        Cardinality(S) = Min(SampleSize, Cardinality(available_quests))}

\* for quest in selected: db.add(UserQuest(progress=0, quest_date=date))
RECURSIVE AddUserQuests(_, _, _, _, _)
AddUserQuests(pend, user_id, selected, quest_date, id) ==
    IF selected = << >> THEN pend
    ELSE AddUserQuests(Append(pend, Write("user_quests", "ins",
                                         [id |-> id, user_id |-> user_id,
                                          quest_id |-> Head(selected),
                                          quest_date |-> quest_date, progress |-> 0,
                                          completed_at |-> NULL, claimed_at |-> NULL])),
                       user_id, Tail(selected), quest_date, id + 1)

\* The quest_ids of the user's records with this quest_date.
ExistingQuestIds(p, user_id, quest_date) ==
    {r.quest_id : r \in {x \in View(p, "user_quests") :
                            x.user_id = user_id /\ x.quest_date = quest_date}}

One_All(available_quests) == {{q} : q \in available_quests}

\* for quest in available_quests: every quest that has no record yet.
All(available_quests) == {available_quests}

\* selected: a random sample for the daily quests, all for the achievements.
Selections(fn, available_quests) ==
    IF fn = "initialize_daily_quests_for_user"
    THEN Samples(available_quests)
    ELSE All(available_quests)

\* The two SELECTs, the choice of the quests and the db.add of the records.
InitializeSelect(p, all_quests) ==
    LET f == Top(p)
        pend == proc[p].pend
        flushed == [proc[p] EXCEPT !.pend = FlushedPend(pend)]
        available_quests == all_quests \ ExistingQuestIds(p, f.user_id, f.target_date)
    IN /\ Ready(p, pend)
       /\ IF available_quests = {}
          THEN /\ Settle(p, Return(flushed), LocksAfterFlush(p, pend))
               /\ UNCHANGED next_id
          ELSE \E S \in Selections(f.fn, available_quests) :
                  /\ next_id' = next_id + Cardinality(S)
                  /\ Settle(p, [flushed EXCEPT
                                   !.pend = AddUserQuests(@, f.user_id, SeqOf(S),
                                                          f.target_date, next_id),
                                   !.stack = SetTop(@, [f EXCEPT !.pc = "commit",
                                                                 !.selected = SeqOf(S)])],
                            LocksAfterFlush(p, pend))
       /\ UNCHANGED << users, tables, clock, today, reward_log, calls >>

InitializeDailySelect(p) ==
    /\ At(p, "initialize_daily_quests_for_user", "select")
    /\ InitializeSelect(p, {q \in QuestIds : quests[q].quest_type = "daily" /\ quests[q].is_active})

InitializeAchievementSelect(p) ==
    /\ At(p, "initialize_achievement_quests_for_user", "select")
    /\ InitializeSelect(p, {q \in QuestIds : quests[q].quest_type = "achievement"
                                             /\ quests[q].is_active})

\* await db.commit(); await check_initial_quest_conditions(user_id, quests, db)
InitializeCommit(p) ==
    /\ proc[p].st = "run"
    /\ Top(p).fn \in {"initialize_daily_quests_for_user", "initialize_achievement_quests_for_user"}
    /\ Top(p).pc = "commit"
    /\ LET f == Top(p)
           pend == proc[p].pend
       IN /\ Ready(p, pend)
          /\ CommitTables(pend)
          /\ Settle(p, Call([proc[p] EXCEPT !.pend = << >>], "return",
                            CheckInitialFrame(f.user_id, f.selected)),
                    Release(locks, p))
    /\ UNCHANGED << users, clock, today, next_id, reward_log, calls >>

InitializeReturn(p) ==
    /\ proc[p].st = "run"
    /\ Top(p).fn \in {"initialize_daily_quests_for_user", "initialize_achievement_quests_for_user"}
    /\ Top(p).pc = "return"
    /\ Settle(p, Return(proc[p]), locks)
    /\ UNCHANGED << users, tables, clock, today, next_id, reward_log, calls >>

\* The absolute value check_initial_quest_conditions reports for a quest:
\* NULL when it makes no update_progress call for it.  What its queries find
\* (the linked OAuth providers, the seconds played today) comes with the call.
InitialValue(op, q) ==
    CASE quests[q].condition_key = "link_all_platforms" /\ op.linked_count > 0 ->
            op.linked_count
      [] quests[q].condition_key = "playtime_daily" /\ op.total_playtime_seconds > 0 ->
            op.total_playtime_seconds
      [] OTHER -> NULL

\* for quest in quests: try: ... update_progress(key, user_id, 0, db,
\* absolute_value=...) except Exception: log.
CheckInitialNext(p) ==
    /\ At(p, "check_initial_quest_conditions", "next")
    /\ LET f == Top(p)
           pend == proc[p].pend
           failed == Fails(p, pend)
           pr == IF ~failed THEN [proc[p] EXCEPT !.pend = FlushedPend(pend)]
                 ELSE IF proc[p].valid THEN RolledBack(proc[p])
                 ELSE proc[p]
       IN IF f.todo = << >>
          THEN Settle(p, Return(proc[p]), locks)
          ELSE LET q == Head(f.todo)
                   rest == [f EXCEPT !.todo = Tail(@)]
                   queries == quests[q].condition_key \in {"link_all_platforms", "playtime_daily"}
               IN IF ~queries
                  THEN Settle(p, [proc[p] EXCEPT !.stack = SetTop(@, rest)], locks)
                  ELSE /\ ~FlushBlocked(p, pend)
                       /\ IF failed \/ InitialValue(proc[p].op, q) = NULL
                          THEN Settle(p, [pr EXCEPT !.stack = SetTop(@, rest)],
                                      IF failed THEN FailedLocks(p) ELSE LocksAfterFlush(p, pend))
                          ELSE Settle(p, Call([pr EXCEPT !.stack = SetTop(@, rest)], "next",
                                              QuestUpdateFrame(quests[q].condition_key, f.user_id,
                                                               0, InitialValue(proc[p].op, q))),
                                      LocksAfterFlush(p, pend))
    /\ UNCHANGED << users, tables, clock, today, next_id, reward_log, calls >>

(***************************************************************************)
(* A statement of p raises (see Fails); the process dies.                  *)
(***************************************************************************)
OwnFailure == { << "award_badge", "insert" >>, << "award_badge", "notify" >>,
                << "extend_or_award_badge", "extend" >>,
                << "admin_award_badge", "insert" >>,
                << "quest_update_progress", "get_counter" >>,
                << "quest_update_progress", "notify" >> }

NoStatement == { << "award_badge", "reward_balance" >>, << "extend_or_award_badge", "return" >>,
                 << "badge_update_progress", "next" >>, << "add_currency", "update_progress" >>,
                 << "add_currency", "return" >>, << "check_periodic_badges", "next" >>,
                 << "check_and_extend_or_award", "return" >>,
                 << "deduct_currency", "check" >>,
                 << "quest_update_progress", "reward_balance" >>,
                 << "award_xp_to_user", "return" >>,
                 << "check_initial_quest_conditions", "next" >>,
                 << "initialize_daily_quests_for_user", "return" >>,
                 << "initialize_achievement_quests_for_user", "return" >> }

StatementFails(p) ==
    /\ proc[p].st = "run"
    /\ << Top(p).fn, Top(p).pc >> \notin OwnFailure \cup NoStatement
    /\ Fails(p, proc[p].pend)
    /\ Settle(p, FailedProc(p, proc[p].pend), FailedLocks(p))
    /\ UNCHANGED << users, tables, clock, today, next_id, reward_log, calls >>

\* The server process is killed: the database rolls back its transaction.
Crash(p) ==
    /\ proc[p].st = "run"
    /\ proc[p].tries = 0
    /\ proc' = [proc EXCEPT ![p] = [@ EXCEPT !.st = "crashed", !.stack = << >>, !.pend = << >>]]
    /\ locks' = Release(locks, p)
    /\ UNCHANGED << users, tables, clock, today, next_id, reward_log, calls >>

\* The frame a request or job starts in.
FrameOf(op) ==
    CASE op.name = "award_xp" -> AwardXpFrame(op.user_id, op.amount, NoSrc)
      [] op.name = "deduct_currency" -> DeductCurrencyFrame(op.user_id, op.amount)
      [] op.name = "add_currency" -> AddCurrencyFrame(op.user_id, op.amount, NoSrc)
      [] op.name = "extend_or_award_badge" -> ExtendOrAwardFrame(op.user_id, op.badge_id)
      [] op.name = "check_periodic_badges" -> PeriodicFrame
      [] op.name = "admin_award_badge" -> AdminAwardFrame(op.user_id, op.badge_id, op.expires_at)
      [] op.name = "badge_update_progress" ->
            BadgeUpdateFrame(op.condition_key, op.user_id, op.increment)
      [] op.name = "quest_update_progress" ->
            QuestUpdateFrame(op.condition_key, op.user_id, op.increment, op.absolute_value)
      [] op.name = "get_progression" -> GetProgressionFrame(op.user_id)
      [] op.name = "award_xp_to_user" -> AwardXpToUserFrame(op.user_id, op.amount)
      [] op.name = "reset_progression" -> ResetProgressionFrame(op.user_id)
      [] op.name = "caller" -> [fn |-> "caller", pc |-> "next"]
      [] op.name = "initialize_daily_quests_for_user" ->
            InitializeDailyFrame(op.user_id, today)
      [] op.name = "initialize_achievement_quests_for_user" ->
            InitializeAchievementFrame(op.user_id)

\* The call is made again after the crash, in a new session.
Retry(p) ==
    /\ proc[p].st = "crashed"
    /\ proc[p].tries = 0
    /\ proc' = [proc EXCEPT ![p] = [Started(@.op, FrameOf(@.op)) EXCEPT !.tries = 1]]
    /\ UNCHANGED << users, tables, locks, clock, today, next_id, reward_log, calls >>

\* date.today() changes while no call is running.
NextDay ==
    /\ today = 1
    /\ \A p \in Procs : proc[p].st # "run"
    /\ today' = today + 1
    /\ UNCHANGED << users, tables, locks, clock, next_id, proc, reward_log, calls >>

Tick ==
    /\ clock < MaxClock
    /\ clock' = clock + 1
    /\ UNCHANGED << users, tables, locks, today, next_id, proc, reward_log, calls >>

(***************************************************************************)
(* Initial database.                                                       *)
(***************************************************************************)
InitXp == 198
InitBalance == 3

InitDB ==
    /\ catalog = BaseCatalog
    /\ user_badges = {}
    /\ user_badge_progress = {}
    /\ user_quests = {}
    /\ user_counters = [k \in Users \X CounterKeys |-> NULL]
    /\ locks = {}
    /\ clock = 0
    /\ today = 1
    /\ next_id = 1
    /\ proc = [p \in Procs |-> IdleProc]
    /\ reward_log = [s \in Users \X Defs \X Scopes |-> [xp |-> 0, balance |-> 0]]
    /\ calls = << >>

(***************************************************************************)
(* SpecLedger: every process is one request that calls award_xp(user, 1)   *)
(* or deduct_currency(user, amount) in its own session.                    *)
(***************************************************************************)
DebitAmounts == {InitBalance - 1, InitBalance + 1}

InitLedger ==
    /\ InitDB
    /\ users = [u \in Users |-> [xp |-> InitXp, level |-> calculate_level_from_xp(InitXp),
                                balance |-> InitBalance]]

StartAwardXp(p) ==
    /\ proc[p].st = "idle"
    /\ \E u \in Users :
          proc' = [proc EXCEPT ![p] =
                      Started([name |-> "award_xp", user_id |-> u, amount |-> 1],
                              AwardXpFrame(u, 1, NoSrc))]
    /\ UNCHANGED << users, tables, locks, clock, today, next_id, reward_log, calls >>

StartDeductCurrency(p) ==
    /\ proc[p].st = "idle"
    /\ \E u \in Users, a \in DebitAmounts :
          proc' = [proc EXCEPT ![p] =
                      Started([name |-> "deduct_currency", user_id |-> u, amount |-> a],
                              DeductCurrencyFrame(u, a))]
    /\ UNCHANGED << users, tables, locks, clock, today, next_id, reward_log, calls >>

NextLedger ==
    \E p \in Procs :
        \/ StartAwardXp(p)
        \/ StartDeductCurrency(p)
        \/ AwardXpSelect(p)
        \/ AwardXpCommit(p)
        \/ DeductCurrencySelect(p)
        \/ DeductCurrencyCheck(p)

SpecLedger == InitLedger /\ [][NextLedger]_vars

Quiescent == \A p \in Procs : proc[p].st # "run"

Finished(name, u) ==
    {p \in Procs : proc[p].op.name = name /\ proc[p].op.user_id = u /\ proc[p].st \in {"done", "error"}}

Debits(u) == Finished("deduct_currency", u)

\* The outcome the claim describes for the two debits p, q of account u.
ExactlyOneDebited(u, p, q) ==
    /\ proc[p].st = "done"
    /\ proc[q].st = "error"
    /\ proc[q].err = "Insufficient funds"
    /\ users[u].balance = InitBalance - proc[p].op.amount

\* C2 as stated: the balance is never negative, and of two concurrent debits
\* of one account that together exceed its balance exactly one succeeds; the
\* other fails with 'Insufficient funds' and leaves the balance unchanged.
C2_AsStated ==
    /\ \A u \in Users : users[u].balance >= 0
    /\ Quiescent =>
          \A u \in Users : \A p, q \in Debits(u) :
              (/\ p # q
               /\ Debits(u) = {p, q}
               /\ proc[p].op.amount + proc[q].op.amount > InitBalance)
              => (ExactlyOneDebited(u, p, q) \/ ExactlyOneDebited(u, q, p))

\* C2 amended: ... provided the balance covers at least one of the two
\* debits alone (when it covers neither, both fail).
C2_NoOverdraft ==
    /\ \A u \in Users : users[u].balance >= 0
    /\ Quiescent =>
          \A u \in Users : \A p, q \in Debits(u) :
              (/\ p # q
               /\ Debits(u) = {p, q}
               /\ proc[p].op.amount + proc[q].op.amount > InitBalance
               /\ (proc[p].op.amount <= InitBalance \/ proc[q].op.amount <= InitBalance))
              => (ExactlyOneDebited(u, p, q) \/ ExactlyOneDebited(u, q, p))

\* Two debits of 2 on a balance of 3 have run: one went through, the other
\* was refused.
C2_Witness ==
    /\ Quiescent
    /\ \E u \in Users : \E p, q \in Debits(u) :
          /\ p # q
          /\ proc[p].op.amount <= InitBalance /\ proc[q].op.amount <= InitBalance
          /\ proc[p].op.amount + proc[q].op.amount > InitBalance
          /\ ExactlyOneDebited(u, p, q)

(***************************************************************************)
(* SpecBadge: every process is one request or job that touches badges, in  *)
(* its own session: a direct extend_or_award_badge call, a periodic pass,  *)
(* an admin award, or an add_currency call (whose update_progress drives   *)
(* the event badge "rich").  A process can be killed once and its call     *)
(* made again.                                                             *)
(***************************************************************************)
CreditAmounts == {1, 2}

\* The account the direct calls are made for (a periodic pass picks its own).
Subjects == {"u1"}

InitBadge ==
    /\ InitDB
    /\ users = [u \in Users |-> [xp |-> InitXp, level |-> calculate_level_from_xp(InitXp),
                                balance |-> InitBalance]]

Start(p, op) ==
    /\ proc[p].st = "idle"
    /\ proc' = [proc EXCEPT ![p] = Started(op, FrameOf(op))]
    /\ UNCHANGED << users, tables, locks, clock, today, next_id, reward_log, calls >>

StartExtendOrAward(p) ==
    \E u \in Subjects :
        Start(p, [name |-> "extend_or_award_badge", user_id |-> u, badge_id |-> "lead"])

StartPeriodic(p) ==
    Start(p, [name |-> "check_periodic_badges", leader |-> ""])

StartAdminAward(p) ==
    \E u \in Subjects, b \in BadgeIds, e \in {NULL, clock + 1} :
        Start(p, [name |-> "admin_award_badge", user_id |-> u, badge_id |-> b, expires_at |-> e])

StartAddCurrency(p) ==
    \E u \in Subjects, a \in CreditAmounts :
        Start(p, [name |-> "add_currency", user_id |-> u, amount |-> a])

\* The steps of award_xp, add_currency, the badge update_progress and the
\* first-time award_badge they lead to.
CreditSteps(p) ==
    \/ AwardXpSelect(p)
    \/ AwardXpCommit(p)
    \/ IncrementCounterUpsert(p)
    \/ AddCurrencySelect(p)
    \/ AddCurrencyCommit(p)
    \/ AddCurrencyUpdateProgress(p)
    \/ AddCurrencyReturn(p)
    \/ BadgeUpdateSelectBadges(p)
    \/ BadgeUpdateSelectProgress(p)
    \/ BadgeUpdateSelectExisting(p)
    \/ BadgeUpdateNext(p)
    \/ BadgeUpdateCommit(p)
    \/ AwardBadgeSelectExisting(p)
    \/ AwardBadgeRewardBalance(p)
    \/ AwardBadgeInsert(p)
    \/ AwardBadgeNotify(p)

AwardSteps(p) ==
    \/ CreditSteps(p)
    \/ AwardBadgeDelete(p)
    \/ ExtendSelectExisting(p)
    \/ ExtendCommit(p)
    \/ ExtendReturn(p)
    \/ PeriodicSelectBadges(p)
    \/ PeriodicNext(p)
    \/ GetLeader(p)
    \/ CheckAndExtendReturn(p)

NextBadge ==
    \/ \E p \in Procs :
          \/ StartExtendOrAward(p)
          \/ StartPeriodic(p)
          \/ StartAdminAward(p)
          \/ StartAddCurrency(p)
          \/ AwardSteps(p)
          \/ AdminAwardSelectExisting(p)
          \/ AdminAwardInsert(p)
    \/ Tick

SpecBadge == InitBadge /\ [][NextBadge]_vars

(***************************************************************************)
(* SpecQuest: concurrent requests that report quest progress for one user  *)
(* (update_progress of quest_progress.py) or credit currency.  The user    *)
(* has a record of the achievement "walk" one step short of its target.    *)
(***************************************************************************)
QuestInputs == { << 1, NULL >>, << 0, 3 >> }

QuestKeys == {"blocks_traveled", "currency_accumulated"}

InitQuest ==
    /\ catalog = BaseCatalog
    /\ users = [u \in Users |-> [xp |-> InitXp, level |-> calculate_level_from_xp(InitXp),
                                balance |-> InitBalance]]
    /\ user_badges = {}
    /\ user_badge_progress = {}
    /\ user_quests = {[id |-> 1, user_id |-> "u1", quest_id |-> "walk", quest_date |-> NULL,
                       progress |-> quests["walk"].target_value - 1,
                       completed_at |-> NULL, claimed_at |-> NULL]}
    /\ user_counters = [k \in Users \X CounterKeys |-> NULL]
    /\ locks = {}
    /\ clock = 0
    /\ today = 1
    /\ next_id = 2
    /\ proc = [p \in Procs |-> IdleProc]
    /\ reward_log = [s \in Users \X Defs \X Scopes |-> [xp |-> 0, balance |-> 0]]
    /\ calls = << >>

StartQuestUpdate(p) ==
    \E u \in Subjects, k \in QuestKeys, in \in QuestInputs :
        Start(p, [name |-> "quest_update_progress", condition_key |-> k, user_id |-> u,
                  increment |-> in[1], absolute_value |-> in[2]])

QuestSteps(p) ==
    \/ QuestSelectQuests(p)
    \/ QuestSelectUserQuest(p)
    \/ QuestGetCounter(p)
    \/ QuestFlush(p)
    \/ QuestRewardBalance(p)
    \/ QuestNotify(p)
    \/ QuestCommit(p)

NextQuest ==
    \E p \in Procs :
        \/ StartQuestUpdate(p)
        \/ QuestSteps(p)
        \/ CreditSteps(p)
        \/ StatementFails(p)

SpecQuest == InitQuest /\ [][NextQuest]_vars

Rows(u, b) == {r \in user_badges : r.user_id = u /\ r.badge_id = b}

\* The rewards of badge b were credited to u exactly once.
PaidOnce(u, b) ==
    /\ reward_log[<< u, b, NULL >>].xp = 1
    /\ reward_log[<< u, b, NULL >>].balance = 1

Ran(p, name) == proc[p].op.name = name /\ proc[p].st \in {"done", "error"}

\* C3: after two concurrent extend_or_award_badge calls for one (user, badge)
\* pair that had no row, there is exactly one UserBadge row for the pair and
\* the badge's reward_xp and reward_balance were credited exactly once.
C3_OneRowOnePayment ==
    \A p, q \in Procs : \A u \in Users :
        (/\ p # q
         /\ Ran(p, "extend_or_award_badge") /\ Ran(q, "extend_or_award_badge")
         /\ proc[p].op.user_id = u /\ proc[q].op.user_id = u
         /\ \A o \in Procs \ {p, q} : proc[o].st = "idle")
        => (Cardinality(Rows(u, "lead")) = 1 /\ PaidOnce(u, "lead"))

\* Both calls found no row and both paid the rewards; the INSERT of the
\* second was refused by uq_user_badge.
C3_Witness ==
    \E p, q \in Procs : \E u \in Users :
        /\ Ran(p, "extend_or_award_badge") /\ Ran(q, "extend_or_award_badge")
        /\ proc[p].op.user_id = u /\ proc[q].op.user_id = u
        /\ proc[p].st = "done" /\ proc[q].err = "IntegrityError"
        /\ reward_log[<< u, "lead", NULL >>].xp = 2

\* C10: in every reachable state there is at most one UserBadge row per
\* (user, badge) pair, whatever the interleaving of update_progress,
\* periodic passes, extend_or_award_badge calls and admin awards.
C10_AtMostOneRow ==
    \A u \in Users, b \in BadgeIds : Cardinality(Rows(u, b)) <= 1

\* An INSERT of a second row for a pair was attempted and refused.
C10_Witness ==
    \E p \in Procs :
        /\ proc[p].err = "IntegrityError"
        /\ proc[p].op.name \in {"admin_award_badge", "extend_or_award_badge"}
        /\ Rows(proc[p].op.user_id, proc[p].op.badge_id) # {}

(***************************************************************************)
(* SpecCrash: one client whose call can be killed at any await and is then *)
(* made again.                                                             *)
(***************************************************************************)
NextCrash ==
    \/ \E p \in {1} :
          \/ StartExtendOrAward(p)
          \/ StartPeriodic(p)
          \/ StartAddCurrency(p)
          \/ AwardSteps(p)
          \/ Crash(p)
          \/ Retry(p)
    \/ Tick

SpecCrash == InitBadge /\ [][NextCrash]_vars

\* C4: a first-time grant that crashed inside award_badge and was retried
\* has credited the badge's reward_xp and reward_balance exactly once.
C4_PaidOnceAfterRetry ==
    \A p \in Procs : \A u \in Users :
        (/\ proc[p].op.name \in {"extend_or_award_badge", "check_periodic_badges"}
         /\ proc[p].st = "done"
         /\ proc[p].tries = 1
         /\ Rows(u, "lead") # {})
        => PaidOnce(u, "lead")

\* The call crashed after award_xp had committed; the retry paid again.
C4_Witness ==
    \E p \in Procs : \E u \in Users :
        /\ proc[p].op.name = "extend_or_award_badge"
        /\ proc[p].st = "done"
        /\ proc[p].tries = 1
        /\ Cardinality(Rows(u, "lead")) = 1
        /\ reward_log[<< u, "lead", NULL >>].xp = 2

QuestRecords(u, q, scope) ==
    {r \in user_quests : r.user_id = u /\ r.quest_id = q /\ r.quest_date = scope}

\* C5: two concurrent quest update_progress calls for one (user, quest,
\* scope) that both see the progress reach the target credit reward_xp and
\* reward_balance once, and the record is completed once.
C5_SingleAward ==
    \A u \in Users, q \in QuestIds, scope \in Scopes :
        /\ reward_log[<< u, q, scope >>].xp <= 1
        /\ reward_log[<< u, q, scope >>].balance <= 1
        /\ Cardinality({r \in QuestRecords(u, q, scope) : r.completed_at # NULL}) <= 1

\* Both calls read the record at progress 2 of 3, both completed it and
\* both paid the rewards.
C5_Witness ==
    /\ Quiescent
    /\ \A p \in Procs : Ran(p, "quest_update_progress") /\ proc[p].st = "done"
    /\ QuestRecords("u1", "walk", NULL) \subseteq {r \in user_quests : r.id = 1 /\ r.completed_at # NULL}
    /\ reward_log[<< "u1", "walk", NULL >>] = [xp |-> 2, balance |-> 2]

(***************************************************************************)
(* SpecSeq: one client makes up to MaxCalls calls one after the other,     *)
(* each in a new session; time passes between the calls.  calls records    *)
(* each call and the database it found.                                    *)
(***************************************************************************)
Snap ==
    [users |-> users, user_badges |-> user_badges,
     user_badge_progress |-> user_badge_progress, user_quests |-> user_quests,
     user_counters |-> user_counters, reward_log |-> reward_log,
     today |-> today, last |-> proc[1].op, st |-> proc[1].st, err |-> proc[1].err,
     ret |-> proc[1].ret, view |-> CounterView(1)]

SeqOps ==
    { [name |-> "extend_or_award_badge", user_id |-> "u1", badge_id |-> "lead"],
      [name |-> "check_periodic_badges", leader |-> ""],
      [name |-> "badge_update_progress", condition_key |-> "currency_accumulated",
       user_id |-> "u1", increment |-> 1] }
    \cup { [name |-> "quest_update_progress", condition_key |-> k, user_id |-> "u1",
            increment |-> in[1], absolute_value |-> in[2]] :
           k \in QuestKeys, in \in QuestInputs }

SeqStart(p) ==
    /\ proc[p].st \in {"idle", "done", "error"}
    /\ Len(calls) < MaxCalls
    /\ \E op \in SeqOps, d \in {1, Hour} :
          /\ clock' = IF calls = << >> THEN clock ELSE clock + d
          /\ clock' <= MaxClock
          /\ proc' = [proc EXCEPT ![p] = Started(op, FrameOf(op))]
          /\ calls' = Append(calls, [op |-> op, before |-> Snap, now |-> clock'])
    /\ UNCHANGED << users, tables, locks, today, next_id, reward_log >>

NextSeq ==
    \/ \E p \in {1} :
          \/ SeqStart(p)
          \/ AwardSteps(p)
          \/ QuestSteps(p)
    \/ NextDay

SpecSeq == InitBadge /\ [][NextSeq]_vars

\* The database call i found, and the one it left behind.
Before(i) == calls[i].before
After(i) == IF i < Len(calls) THEN calls[i + 1].before ELSE Snap
Completed(i) == i < Len(calls) \/ proc[1].st \in {"done", "error"}

RowsIn(snap, u, b) == {r \in snap.user_badges : r.user_id = u /\ r.badge_id = b}

Paid(snap1, snap2, src) ==
    [xp |-> snap2.reward_log[src].xp - snap1.reward_log[src].xp,
     balance |-> snap2.reward_log[src].balance - snap1.reward_log[src].balance]

TwoExtendCalls(i) ==
    /\ i + 1 <= Len(calls)
    /\ calls[i].op.name = "extend_or_award_badge"
    /\ calls[i + 1].op = calls[i].op
    /\ Completed(i + 1)
    /\ RowsIn(Before(i), calls[i].op.user_id, calls[i].op.badge_id) = {}

\* C6: two extend_or_award_badge(user, badge) calls in sequence, for a user
\* without a UserBadge row, credit the badge's rewards exactly once and
\* leave exactly one UserBadge row for the pair.
C6_TwoCallsOnePayment ==
    \A i \in 1..Len(calls) :
        TwoExtendCalls(i) =>
            LET u == calls[i].op.user_id
                b == calls[i].op.badge_id
            IN /\ Cardinality(RowsIn(After(i + 1), u, b)) = 1
               /\ Paid(Before(i), After(i + 1), << u, b, NULL >>) = [xp |-> 1, balance |-> 1]

\* The two calls have been made: the first granted, the second extended.
C6_Witness ==
    \E i \in 1..Len(calls) :
        /\ TwoExtendCalls(i)
        /\ RowsIn(After(i), "u1", "lead") # {}
        /\ After(i + 1).users["u1"].xp > InitXp

Leader(i) == After(i).last.leader

TwoPasses(i) ==
    /\ i + 1 <= Len(calls)
    /\ calls[i].op.name = "check_periodic_badges"
    /\ calls[i + 1].op.name = "check_periodic_badges"
    /\ Completed(i + 1)
    /\ Leader(i) = Leader(i + 1)

\* C7: of two consecutive periodic passes that select the same subject for
\* the temporary badge, the second leaves the subject's xp and balance as
\* the first left them, and the grant's expires_at strictly later.
C7_ExtendNoRepay ==
    \A i \in 1..Len(calls) :
        TwoPasses(i) =>
            LET u == Leader(i)
                first == RowsIn(After(i), u, "lead")
                second == RowsIn(After(i + 1), u, "lead")
            IN /\ After(i + 1).users[u].xp = After(i).users[u].xp
               /\ After(i + 1).users[u].balance = After(i).users[u].balance
               /\ first # {} /\ second # {}
               /\ \A r1 \in first, r2 \in second : r2.expires_at > r1.expires_at

\* The first pass granted the badge and paid, the second extended the row.
C7_Witness ==
    \E i \in 1..Len(calls) :
        /\ TwoPasses(i)
        /\ RowsIn(Before(i), Leader(i), "lead") = {}
        /\ After(i).users[Leader(i)].xp = InitXp + badges["lead"].reward_xp
        /\ \E r1 \in RowsIn(After(i), Leader(i), "lead") :
           \E r2 \in RowsIn(After(i + 1), Leader(i), "lead") :
              r1.id = r2.id /\ r2.expires_at > r1.expires_at

\* C8: a progress record (of a quest or of a badge) that a call found
\* completed stays as it is, in every state from then on, and its reward is
\* not credited again.
C8_CompletedFrozen ==
    \A i \in 1..Len(calls) :
        /\ \A r \in Before(i).user_quests :
              r.completed_at # NULL =>
                 /\ r \in user_quests
                 /\ reward_log[<< r.user_id, r.quest_id, r.quest_date >>]
                      = Before(i).reward_log[<< r.user_id, r.quest_id, r.quest_date >>]
        /\ \A r \in Before(i).user_badge_progress :
              r.completed_at # NULL =>
                 /\ r \in user_badge_progress
                 /\ reward_log[<< r.user_id, r.badge_id, NULL >>]
                      = Before(i).reward_log[<< r.user_id, r.badge_id, NULL >>]

\* update_progress calls were made for a completed quest record and for a
\* completed badge progress record, and have returned.
C8_Witness ==
    /\ \E i \in 1..Len(calls) :
          /\ Completed(i)
          /\ calls[i].op.name = "quest_update_progress"
          /\ \E r \in Before(i).user_quests :
                r.completed_at # NULL /\ quests[r.quest_id].condition_key = calls[i].op.condition_key
    /\ \E i \in 1..Len(calls) :
          /\ Completed(i)
          /\ calls[i].op.name = "badge_update_progress"
          /\ \E r \in Before(i).user_badge_progress : r.completed_at # NULL

\* Call i is a +1 progress update that is not overridden by a counter.
PlusOne(i, name) ==
    /\ Completed(i)
    /\ calls[i].op.name = name
    /\ calls[i].op.increment = 1
    /\ name = "quest_update_progress" =>
          /\ calls[i].op.absolute_value = NULL
          /\ Before(i).user_counters[<< calls[i].op.user_id, calls[i].op.condition_key >>]
               \in {NULL, 0}

\* What a +1 update does to the record of a definition with target T:
\* old is the set holding the record before (empty: progress 0), new the
\* set holding it after.
StepsTo(old, new, T, paid, credits, same_account) ==
    LET p0 == IF old = {} THEN 0 ELSE (CHOOSE r \in old : TRUE).progress
        c0 == old # {} /\ (CHOOSE r \in old : TRUE).completed_at # NULL
    IN /\ Cardinality(new) = 1
       /\ \A r1 \in new :
             /\ (~c0 /\ p0 + 1 < T) =>
                   /\ r1.progress = p0 + 1 /\ r1.completed_at = NULL
                   /\ paid = [xp |-> 0, balance |-> 0]
                   /\ same_account
             /\ (~c0 /\ p0 + 1 = T) =>
                   /\ r1.progress = T /\ r1.completed_at # NULL
                   /\ paid = credits
             /\ c0 =>
                   /\ r1 \in old
                   /\ paid = [xp |-> 0, balance |-> 0]
                   /\ same_account

Once(n) == IF n > 0 THEN 1 ELSE 0

WalkRecord(snap) == {r \in snap.user_quests : r.user_id = "u1" /\ r.quest_id = "walk"}

Unexpired(r, t) == r.expires_at = NULL \/ r.expires_at > t

\* The account call i is made for: the user of a direct call, the leader a
\* periodic pass selected.
Subject(i) ==
    IF calls[i].op.name = "check_periodic_badges" THEN Leader(i) ELSE calls[i].op.user_id

\* Call i reached extend_or_award_badge for a pair whose row had expired.
FoundExpired(i, u) ==
    /\ Completed(i)
    /\ calls[i].op.name \in {"extend_or_award_badge", "check_periodic_badges"}
    /\ u = Subject(i)
    /\ \E r \in RowsIn(Before(i), u, "lead") :
          r.expires_at # NULL /\ r.expires_at <= calls[i].now

\* C11: an extend_or_award_badge call that finds the pair's row expired
\* leaves the user with an active grant and with the xp, level and balance
\* it had; and over any sequence of calls, passes and expiries the badge's
\* rewards are credited to a user at most once.
C11_ExpiredRegrantNoRepay ==
    /\ \A i \in 1..Len(calls) : \A u \in Users :
          FoundExpired(i, u) =>
             /\ \E r \in RowsIn(After(i), u, "lead") : r.expires_at > calls[i].now
             /\ After(i).users[u] = Before(i).users[u]
    /\ \A u \in Users :
          reward_log[<< u, "lead", NULL >>].xp <= 1 /\ reward_log[<< u, "lead", NULL >>].balance <= 1

\* A user was granted the badge and paid, the grant expired, and a later
\* call granted it again.
C11_Witness ==
    \E i \in 1..Len(calls) : \E u \in Users :
        /\ FoundExpired(i, u)
        /\ Before(i).reward_log[<< u, "lead", NULL >>] = [xp |-> 1, balance |-> 1]
        /\ \E r \in RowsIn(After(i), u, "lead") : Unexpired(r, calls[i].now)

GoneIn(snap1, snap2) ==
    {r \in snap1.user_badges : ~\E r2 \in snap2.user_badges : r2.id = r.id}

XpAmounts == {0 - (InitXp + 1), 0 - 1, 0, 2}

StartAwardXpToUser(p) ==
    \E u \in Subjects, a \in XpAmounts :
        Start(p, [name |-> "award_xp_to_user", user_id |-> u, amount |-> a])

StartResetProgression(p) ==
    \E u \in Subjects : Start(p, [name |-> "reset_progression", user_id |-> u])

ProgressionSteps(p) ==
    \/ GetCurrentUser(p)
    \/ AwardXpSelect(p)
    \/ AwardXpCommit(p)
    \/ AwardXpToUserReturn(p)
    \/ ResetProgressionCommit(p)

NextProgression ==
    \E p \in Procs :
        \/ StartAwardXpToUser(p)
        \/ StartResetProgression(p)
        \/ ProgressionSteps(p)

SpecProgression == InitBadge /\ [][NextProgression]_vars

\* C13: in every reachable state the stored level of every user is the
\* level the curve gives for the stored xp.
C13_LevelMatchesXp ==
    \A u \in Users : users[u].level = calculate_level_from_xp(users[u].xp)

\* Two requests have finished, one of them a reset, and the user's row
\* holds xp 0 with a level above 1.
C13_Witness ==
    /\ \A p \in Procs : proc[p].st = "done"
    /\ \E p \in Procs : proc[p].op.name = "reset_progression"
    /\ \E u \in Users : users[u].xp = 0 /\ users[u].level > 1

(***************************************************************************)
(* SpecCurve: the user's xp is at a boundary of the level curve (or below  *)
(* T(1), or around the level cap) and the user makes one request:          *)
(* GET /me/progression, POST /me/award-xp with a positive amount, or       *)
(* POST /me/reset-progression.                                             *)
(***************************************************************************)
CurveLevels == 12

CurveXps ==
    {0}
    \cup { calculate_total_xp_for_level(N) : N \in 1..CurveLevels }
    \cup { calculate_total_xp_for_level(N) - 1 : N \in 1..CurveLevels }
    \cup { calculate_total_xp_for_level(MaxLevel) - 1,
           calculate_total_xp_for_level(MaxLevel),
           calculate_total_xp_for_level(MaxLevel + 1) + 1 }

\* The level column of a user with each of these xp values.
CurveLevel == [x \in CurveXps |-> calculate_level_from_xp(x)]

InitCurve ==
    /\ InitDB
    /\ \E x \in CurveXps :
          users = [u \in Users |-> [xp |-> x, level |-> CurveLevel[x], balance |-> InitBalance]]

CurveOps ==
    { [name |-> "get_progression", user_id |-> u] : u \in Subjects }
    \cup { [name |-> "award_xp_to_user", user_id |-> u, amount |-> a] :
           u \in Subjects, a \in {1, 2} }
    \cup { [name |-> "reset_progression", user_id |-> u] : u \in Subjects }

CurveStart(p) ==
    /\ proc[p].st = "idle"
    /\ calls = << >>
    /\ \E op \in CurveOps :
          /\ proc' = [proc EXCEPT ![p] = Started(op, FrameOf(op))]
          /\ calls' = Append(calls, [op |-> op, before |-> Snap, now |-> clock])
    /\ UNCHANGED << users, tables, locks, clock, today, next_id, reward_log >>

NextCurve ==
    \E p \in {1} :
        \/ CurveStart(p)
        \/ ProgressionSteps(p)

SpecCurve == InitCurve /\ [][NextCurve]_vars

\* Call i was GET /me/progression of a user with this xp, and answered
\* with this level.
Answered(i, xp, level) ==
    /\ Completed(i)
    /\ calls[i].op.name = "get_progression"
    /\ xp = Before(i).users[calls[i].op.user_id].xp
    /\ level = After(i).ret.level

\* N is the largest level whose threshold T(N) the xp has reached.
LargestReached(N, xp) ==
    /\ calculate_total_xp_for_level(N) <= xp
    /\ xp < calculate_total_xp_for_level(N + 1)

Boundaries == (1..CurveLevels) \cup {MaxLevel}

\* C14 as stated: for every N from 1 the level at xp = T(N) is N and the
\* level at xp = T(N) - 1 is N - 1; the level is the largest N with
\* T(N) <= xp (T(0) = 0), capped at 1000.
C14_LevelIsLargestReached ==
    \A i \in 1..Len(calls) : \A xp \in CurveXps : \A level \in 0..MaxLevel :
        Answered(i, xp, level) =>
           /\ \A N \in Boundaries :
                 /\ xp = calculate_total_xp_for_level(N) => level = N
                 /\ xp = calculate_total_xp_for_level(N) - 1 => level = N - 1
           /\ IF level < MaxLevel
              THEN LargestReached(level, xp)
              ELSE calculate_total_xp_for_level(MaxLevel) <= xp

\* C14 amended: the level at xp = T(N) is N for every N from 1, the level
\* at xp = T(N) - 1 is N - 1 for every N from 2, and below T(1) the level
\* is 1; from T(1) on the level is the largest N with T(N) <= xp, capped
\* at 1000.
C14_LevelIsLargestReachedFromOne ==
    \A i \in 1..Len(calls) : \A xp \in CurveXps : \A level \in 0..MaxLevel :
        Answered(i, xp, level) =>
           /\ \A N \in Boundaries :
                 /\ xp = calculate_total_xp_for_level(N) => level = N
                 /\ N >= 2 /\ xp = calculate_total_xp_for_level(N) - 1 => level = N - 1
           /\ xp < calculate_total_xp_for_level(1) => level = 1
           /\ xp >= calculate_total_xp_for_level(1) =>
                 IF level < MaxLevel
                 THEN LargestReached(level, xp)
                 ELSE calculate_total_xp_for_level(MaxLevel) <= xp

\* A user one xp short of T(N), N >= 2, asked for the progression and was
\* told level N - 1.
C14_Witness ==
    \E i \in 1..Len(calls) : \E N \in 2..CurveLevels :
        Answered(i, calculate_total_xp_for_level(N) - 1, N - 1)

\* Call i was a completed POST /me/award-xp of user u with a positive amount.
XpCredited(i, u) ==
    /\ Completed(i)
    /\ calls[i].op.name = "award_xp_to_user"
    /\ calls[i].op.user_id = u
    /\ calls[i].op.amount > 0
    /\ After(i).st = "done"

\* C15: the level is monotonically non-decreasing in xp: of two xp values
\* 0 <= a <= b the larger never has the smaller level; and a credit of
\* positive xp never lowers the user's level.
C15_LevelMonotonic ==
    /\ \A i \in 1..Len(calls) : \A b \in CurveXps : \A level \in 0..MaxLevel :
          Answered(i, b, level) =>
             \A a \in CurveXps :
                /\ a <= b => CurveLevel[a] <= level
                /\ b <= a => level <= CurveLevel[a]
    /\ \A i \in 1..Len(calls) : \A u \in Users :
          XpCredited(i, u) =>
             /\ After(i).users[u].xp > Before(i).users[u].xp
             /\ After(i).users[u].level >= Before(i).users[u].level
             /\ After(i).ret.level >= Before(i).users[u].level

\* A credit of positive xp took the user over a threshold: the level rose.
C15_Witness ==
    \E i \in 1..Len(calls) : \E u \in Users :
        /\ XpCredited(i, u)
        /\ After(i).users[u].level > Before(i).users[u].level

\* The smallest integer that is at least L / 10.
CeilTenth(L) == CHOOSE k \in 0..L : 10 * k >= L /\ 10 * (k - 1) < L

\* C16: E(L) = ceil(L / 10) * 100, so E(1) = 100, E(10) = 100, E(11) = 200
\* and T(10) = 1000; a user at xp 999 is at level 9 and award_xp(user, 1)
\* returns total_xp 1000, level 10 and level_increased; every award_xp with
\* a positive amount returns total_xp = old xp + amount, the level of that
\* total, and level_increased exactly when the level is above the old one.
C16_AwardResult ==
    /\ \A L \in 1..(CurveLevels + 1) : calculate_e_for_level(L) = CeilTenth(L) * 100
    /\ calculate_e_for_level(1) = 100
    /\ calculate_e_for_level(10) = 100
    /\ calculate_e_for_level(11) = 200
    /\ calculate_total_xp_for_level(10) = 1000
    /\ \A i \in 1..Len(calls) : \A u \in Users :
          XpCredited(i, u) =>
             LET old == Before(i).users[u]
                 now == After(i).users[u]
                 result == After(i).ret
             IN /\ result.total_xp = old.xp + calls[i].op.amount
                /\ result.level = calculate_level_from_xp(result.total_xp)
                /\ result.level_increased <=> result.level > old.level
                /\ result.xp_awarded = calls[i].op.amount
                /\ now.xp = result.total_xp /\ now.level = result.level
                /\ old.xp = 999 /\ calls[i].op.amount = 1 =>
                      /\ old.level = 9
                      /\ result.total_xp = 1000
                      /\ result.level = 10
                      /\ result.level_increased

\* A user at xp 999 was credited 1 xp and the call returned level 10.
C16_Witness ==
    \E i \in 1..Len(calls) : \E u \in Users :
        /\ XpCredited(i, u)
        /\ Before(i).users[u].xp = 999
        /\ calls[i].op.amount = 1
        /\ After(i).ret.level = 10
        /\ After(i).ret.level_increased

\* C17: for every xp >= 0 the progress percent that get_progression_info
\* reports is within [0, 100] (here in hundredths of a percent);
\* equivalently 0 <= xp - T(level) <= E(level + 1), below T(1) = 100 and
\* beyond the level cap included.
C17_ProgressPercentInRange ==
    \A i \in 1..Len(calls) : \A xp \in CurveXps : \A level \in 0..MaxLevel :
        Answered(i, xp, level) =>
           /\ After(i).ret.progress_percent >= 0
           /\ After(i).ret.progress_percent <= 100 * 100
           /\ After(i).ret.xp_progress = xp - calculate_total_xp_for_level(level)
           /\ xp - calculate_total_xp_for_level(level) >= 0
           /\ xp - calculate_total_xp_for_level(level) <= calculate_e_for_level(level + 1)

\* A user with no xp asked for the progression and was told a negative
\* percentage.
C17_Witness ==
    \E i \in 1..Len(calls) : \E level \in 0..MaxLevel :
        /\ Answered(i, 0, level)
        /\ After(i).ret.progress_percent < 0

\* A user beyond the xp of the level cap was told more than 100 percent.
C17_BeyondCap ==
    \E i \in 1..Len(calls) : \E xp \in CurveXps :
        /\ Answered(i, xp, MaxLevel)
        /\ xp > calculate_total_xp_for_level(MaxLevel + 1)
        /\ After(i).ret.progress_percent > 100 * 100

(***************************************************************************)
(* SpecAccount: one client calls the ledger operations award_xp,           *)
(* add_currency and deduct_currency one after the other, each call in a    *)
(* new session, with positive, zero and negative amounts.                  *)
(***************************************************************************)
CurrencyAmounts == {0 - 1, 0, 1}

AccountOps ==
    { [name |-> "award_xp", user_id |-> u, amount |-> a] : u \in Subjects, a \in XpAmounts }
    \cup { [name |-> n, user_id |-> u, amount |-> a] :
           n \in {"add_currency", "deduct_currency"}, u \in Subjects, a \in CurrencyAmounts }

AccountStart(p) ==
    /\ proc[p].st \in {"idle", "done", "error"}
    /\ Len(calls) < MaxCalls
    /\ \E op \in AccountOps :
          /\ proc' = [proc EXCEPT ![p] = Started(op, FrameOf(op))]
          /\ calls' = Append(calls, [op |-> op, before |-> Snap, now |-> clock])
    /\ UNCHANGED << users, tables, locks, clock, today, next_id, reward_log >>

NextAccount ==
    \E p \in {1} :
        \/ AccountStart(p)
        \/ CreditSteps(p)
        \/ DeductCurrencySelect(p)
        \/ DeductCurrencyCheck(p)

SpecAccount == InitBadge /\ [][NextAccount]_vars

\* Call i was a completed ledger operation with an amount that is not
\* positive.
NonPositive(i, names) ==
    /\ Completed(i)
    /\ calls[i].op.name \in names
    /\ calls[i].op.amount <= 0

\* C18 as stated: every award_xp, add_currency and deduct_currency call
\* with amount <= 0 is rejected with an error and leaves xp, level and
\* balance unchanged.
C18_NonPositiveRejected ==
    \A i \in 1..Len(calls) :
        NonPositive(i, {"award_xp", "add_currency", "deduct_currency"}) =>
           /\ After(i).st = "error"
           /\ After(i).users = Before(i).users

\* C18 amended: add_currency and deduct_currency with amount <= 0 are
\* rejected with an error and leave xp, level and balance unchanged;
\* award_xp with amount 0 returns the current state without an error and
\* changes nothing; award_xp with a negative amount is accepted and lowers
\* xp to max(0, xp + amount), the level following the xp, the balance
\* unchanged.
C18_NonPositiveCurrencyRejected ==
    \A i \in 1..Len(calls) :
        LET u == calls[i].op.user_id
            old == Before(i).users[u]
            now == After(i).users[u]
        IN /\ NonPositive(i, {"add_currency", "deduct_currency"}) =>
                 /\ After(i).st = "error"
                 /\ After(i).err = "Amount must be positive"
                 /\ After(i).users = Before(i).users
           /\ NonPositive(i, {"award_xp"}) =>
                 /\ After(i).st = "done"
                 /\ \A v \in Users \ {u} : After(i).users[v] = Before(i).users[v]
                 /\ now.balance = old.balance
                 /\ now.xp = IF old.xp + calls[i].op.amount > 0
                             THEN old.xp + calls[i].op.amount ELSE 0
                 /\ now.level = calculate_level_from_xp(now.xp)
                 /\ After(i).ret.total_xp = now.xp
                 /\ After(i).ret.level = now.level
                 /\ ~After(i).ret.level_increased
                 /\ calls[i].op.amount = 0 => now = old

\* A credit of zero currency was rejected, and an award of negative xp was
\* accepted and lowered the user's xp.
C18_Witness ==
    \E i, j \in 1..Len(calls) :
        /\ NonPositive(i, {"add_currency"}) /\ calls[i].op.amount = 0
        /\ After(i).st = "error"
        /\ NonPositive(j, {"award_xp"}) /\ calls[j].op.amount < 0
        /\ After(j).st = "done"
        /\ After(j).users[calls[j].op.user_id].xp < Before(j).users[calls[j].op.user_id].xp

\* The user's records of quest q in snap for the day of snap0.
RecordsIn(snap, snap0, u, q) ==
    {r \in snap.user_quests :
        /\ r.user_id = u /\ r.quest_id = q
        /\ r.quest_date = (IF quests[q].quest_type = "daily" THEN snap0.today ELSE NULL)}

\* What the Counter Store held for (u, key): 0 when there is no row.
Stored(snap, u, key) ==
    IF snap.user_counters[<< u, key >>] = NULL THEN 0 ELSE snap.user_counters[<< u, key >>]

\* Call i was update_progress for a quest q of its key whose record was not
\* completed (or not there yet, which is a record with progress 0).
UpdatedQuest(i, q) ==
    /\ Completed(i)
    /\ calls[i].op.name = "quest_update_progress"
    /\ quests[q].is_active
    /\ quests[q].condition_key = calls[i].op.condition_key
    /\ \A r \in RecordsIn(Before(i), Before(i), calls[i].op.user_id, q) : r.completed_at = NULL

CurrentProgress(i, q) ==
    LET found == RecordsIn(Before(i), Before(i), calls[i].op.user_id, q)
    IN IF found = {} THEN 0 ELSE (CHOOSE r \in found : TRUE).progress

\* C19: update_progress(key, user, increment, absolute_value) sets the
\* progress of an uncompleted record to the counter of (user, key) if that
\* is nonzero, else to max(current progress, absolute_value) if an absolute
\* value is supplied, else to current progress + increment.
C19_ProgressPrecedence ==
    \A i \in 1..Len(calls) : \A q \in QuestIds :
        UpdatedQuest(i, q) =>
           LET op == calls[i].op
               counter == Stored(Before(i), op.user_id, op.condition_key)
               current == CurrentProgress(i, q)
               expected == IF counter # 0 THEN counter
                           ELSE IF op.absolute_value # NULL
                                THEN (IF current > op.absolute_value THEN current
                                      ELSE op.absolute_value)
                                ELSE current + op.increment
           IN /\ Cardinality(RecordsIn(After(i), Before(i), op.user_id, q)) = 1
              /\ \A r \in RecordsIn(After(i), Before(i), op.user_id, q) : r.progress = expected

\* The counter held a nonzero value below the absolute value supplied, and
\* the progress became the counter's value.
C19_Witness ==
    \E i \in 1..Len(calls) : \E q \in QuestIds :
        /\ UpdatedQuest(i, q)
        /\ calls[i].op.absolute_value # NULL
        /\ Stored(Before(i), calls[i].op.user_id, calls[i].op.condition_key) # 0
        /\ Stored(Before(i), calls[i].op.user_id, calls[i].op.condition_key)
              < calls[i].op.absolute_value
        /\ \E r \in RecordsIn(After(i), Before(i), calls[i].op.user_id, q) :
              r.progress = Stored(Before(i), calls[i].op.user_id, calls[i].op.condition_key)

\* No counter and no absolute value: the progress grew by the increment.
C19_Incremented ==
    \E i \in 1..Len(calls) : \E q \in QuestIds :
        /\ UpdatedQuest(i, q)
        /\ calls[i].op.absolute_value = NULL
        /\ Stored(Before(i), calls[i].op.user_id, calls[i].op.condition_key) = 0
        /\ CurrentProgress(i, q) > 0
        /\ \E r \in RecordsIn(After(i), Before(i), calls[i].op.user_id, q) :
              r.progress = CurrentProgress(i, q) + calls[i].op.increment

\* No counter, an absolute value below the current progress: the progress
\* stayed.
C19_AbsoluteBelow ==
    \E i \in 1..Len(calls) : \E q \in QuestIds :
        /\ UpdatedQuest(i, q)
        /\ calls[i].op.absolute_value # NULL
        /\ Stored(Before(i), calls[i].op.user_id, calls[i].op.condition_key) = 0
        /\ CurrentProgress(i, q) > 0

(***************************************************************************)
(* SpecCounter: concurrent add_currency(user, d) requests, each in its own *)
(* session; add_currency is the caller of                                  *)
(* increment_counter(user, "currency_accumulated", d), and the             *)
(* update_progress that follows commits the upsert.                        *)
(***************************************************************************)
NextCounter ==
    \E p \in Procs :
        \/ StartAddCurrency(p)
        \/ CreditSteps(p)

SpecCounter == InitBadge /\ [][NextCounter]_vars

\* The requests that called increment_counter(u, key, d) and are over.
Incremented(u) ==
    {p \in Procs : proc[p].op.name = "add_currency" /\ proc[p].op.user_id = u
                   /\ proc[p].st = "done"}

\* The sum of the amounts d of these calls.
SumOfAmounts(S) ==
    IF S = {} THEN 0 ELSE BagCardinality([p \in S |-> proc[p].op.amount])

\* C20: when concurrent increment_counter(user, key, d) calls with d > 0 are
\* over, whatever the interleaving and with no counter row at the start,
\* the counter is the initial value (0) plus the sum of the d, and the pair
\* (user, key) has its one row.
C20_CounterIsSum ==
    Quiescent =>
       \A u \in Users :
          /\ Stored(Snap, u, "currency_accumulated") = SumOfAmounts(Incremented(u))
          /\ Incremented(u) # {} => user_counters[<< u, "currency_accumulated" >>] # NULL

\* Every process made a call for the same user, the amounts differ, and
\* the counter holds their sum.
C20_Witness ==
    /\ \A p \in Procs : p \in Incremented("u1")
    /\ \E p, q \in Procs : proc[p].op.amount # proc[q].op.amount
    /\ user_counters[<< "u1", "currency_accumulated" >>] = SumOfAmounts(Procs)

(***************************************************************************)
(* SpecStore: one caller holds a session and calls get_counter,            *)
(* set_counter and increment_counter in it, one after the other, then      *)
(* commits.  None of the three commits by itself.                          *)
(***************************************************************************)
StoreValues == {0, 2}
StoreAmounts == {0 - 1, 0, 1}

StoreOps ==
    { [name |-> "get_counter", user_id |-> u, counter_key |-> k] :
        u \in Subjects, k \in CounterKeys }
    \cup { [name |-> "set_counter", user_id |-> u, counter_key |-> k, value |-> v] :
           u \in Subjects, k \in CounterKeys, v \in StoreValues }
    \cup { [name |-> "increment_counter", user_id |-> u, counter_key |-> k, amount |-> d] :
           u \in Subjects, k \in CounterKeys, d \in StoreAmounts }

StoreFrameOf(op) ==
    CASE op.name = "get_counter" -> GetCounterFrame(op.user_id, op.counter_key)
      [] op.name = "set_counter" -> SetCounterFrame(op.user_id, op.counter_key, op.value)
      [] op.name = "increment_counter" ->
            IncrementCounterFrame(op.user_id, op.counter_key, op.amount)

StoreStart(p) ==
    Start(p, [name |-> "caller"])

\* The caller's next call.
StoreCall(p) ==
    /\ At(p, "caller", "next")
    /\ Len(calls) < MaxCalls
    /\ \E op \in StoreOps :
          /\ proc' = [proc EXCEPT ![p] = Call(@, "next", StoreFrameOf(op))]
          /\ calls' = Append(calls, [op |-> op, before |-> Snap, now |-> clock])
    /\ UNCHANGED << users, tables, locks, clock, today, next_id, reward_log >>

\* await db.commit() of the caller, and the end of the request.
StoreCommit(p) ==
    /\ At(p, "caller", "next")
    /\ Ready(p, proc[p].pend)
    /\ CommitTables(proc[p].pend)
    /\ Settle(p, Return([proc[p] EXCEPT !.pend = << >>]), Release(locks, p))
    /\ UNCHANGED << users, clock, today, next_id, reward_log, calls >>

NextStore ==
    \E p \in {1} :
        \/ StoreStart(p)
        \/ StoreCall(p)
        \/ StoreCommit(p)
        \/ GetCounterSelect(p)
        \/ SetCounterUpsert(p)
        \/ IncrementCounterUpsert(p)

SpecStore == InitBadge /\ [][NextStore]_vars

\* Call i of the caller has returned.
Returned(i) == i < Len(calls) \/ Len(proc[1].stack) <= 1

\* What the session saw in the store for the pair before and after call i.
Held(snap, u, k) == snap.view[<< u, k >>]

\* C21: get_counter answers 0 for a key never written; get_counter after
\* set_counter(u, k, v) answers v whatever was there; increment_counter
\* (u, k, d) with d > 0 on an absent key makes the value d; increment_counter
\* with d <= 0 changes nothing; and an operation on (u, k) leaves the value
\* of every other pair as it was.
C21_CounterStore ==
    \A i \in 1..Len(calls) :
        Returned(i) =>
           LET op == calls[i].op
               was == Held(Before(i), op.user_id, op.counter_key)
               is == Held(After(i), op.user_id, op.counter_key)
           IN /\ \A u \in Users, k \in CounterKeys :
                    << u, k >> # << op.user_id, op.counter_key >> =>
                       Held(After(i), u, k) = Held(Before(i), u, k)
              /\ op.name = "get_counter" =>
                    /\ is = was
                    /\ was = NULL => After(i).ret.value = 0
                    /\ was # NULL => After(i).ret.value = was
                    /\ i > 1 /\ calls[i - 1].op.name = "set_counter"
                       /\ calls[i - 1].op.user_id = op.user_id
                       /\ calls[i - 1].op.counter_key = op.counter_key
                       => After(i).ret.value = calls[i - 1].op.value
              /\ op.name = "set_counter" => is = op.value
              /\ op.name = "increment_counter" /\ op.amount > 0 /\ was = NULL =>
                    is = op.amount
              /\ op.name = "increment_counter" /\ op.amount <= 0 => is = was

\* A value was incremented from nothing, overwritten by set_counter with
\* another value, and get_counter answered the value set.
C21_Witness ==
    \E i \in 3..Len(calls) :
        /\ Returned(i)
        /\ calls[i].op.name = "get_counter"
        /\ calls[i - 1].op.name = "set_counter"
        /\ calls[i - 2].op.name = "increment_counter"
        /\ calls[i - 2].op.amount > 0
        /\ calls[i - 1].op.counter_key = calls[i].op.counter_key
        /\ calls[i - 2].op.counter_key = calls[i].op.counter_key
        /\ Held(Before(i - 2), calls[i].op.user_id, calls[i].op.counter_key) = NULL
        /\ calls[i - 1].op.value # calls[i - 2].op.amount
        /\ After(i).ret.value = calls[i - 1].op.value


(***************************************************************************)
(* Quest rollover: one client initialises the daily and the achievement    *)
(* quests of a user (scheduler.py initialize_daily_quests_job, quests.py   *)
(* get_my_quests), reports progress and credits currency, one call after   *)
(* the other, over the full quest catalogue.                               *)
(***************************************************************************)
RolloverCatalog == [badges |-> {"lead", "rich"}, quests |-> QuestNames]

InitRollover ==
    /\ catalog = RolloverCatalog
    /\ users = [u \in Users |-> [xp |-> InitXp, level |-> calculate_level_from_xp(InitXp),
                                balance |-> InitBalance]]
    /\ user_badges = {}
    /\ user_badge_progress = {}
    /\ user_quests = {}
    /\ user_counters = [k \in Users \X CounterKeys |-> NULL]
    /\ locks = {}
    /\ clock = 0
    /\ today = 1
    /\ next_id = 1
    /\ proc = [p \in Procs |-> IdleProc]
    /\ reward_log = [s \in Users \X Defs \X Scopes |-> [xp |-> 0, balance |-> 0]]
    /\ calls = << >>

RolloverOps ==
    { [name |-> "initialize_daily_quests_for_user", user_id |-> "u1",
       linked_count |-> 0, total_playtime_seconds |-> s] : s \in {0, 2} }
    \cup { [name |-> "initialize_achievement_quests_for_user", user_id |-> "u1",
            linked_count |-> n, total_playtime_seconds |-> 0] : n \in {0, 1} }
    \cup { [name |-> "quest_update_progress", condition_key |-> "playtime_daily",
            user_id |-> "u1", increment |-> 1, absolute_value |-> NULL],
           [name |-> "quest_update_progress", condition_key |-> "messages_sent",
            user_id |-> "u1", increment |-> 1, absolute_value |-> NULL],
           [name |-> "quest_update_progress", condition_key |-> "blocks_traveled",
            user_id |-> "u1", increment |-> 0, absolute_value |-> 3],
           [name |-> "add_currency", user_id |-> "u1", amount |-> 2] }

RolloverStart(p) ==
    /\ proc[p].st \in {"idle", "done", "error"}
    /\ Len(calls) < MaxCalls
    /\ \E op \in RolloverOps :
          /\ clock' = IF calls = << >> THEN clock ELSE clock + 1
          /\ clock' <= MaxClock
          /\ proc' = [proc EXCEPT ![p] = Started(op, FrameOf(op))]
          /\ calls' = Append(calls, [op |-> op, before |-> Snap, now |-> clock'])
    /\ UNCHANGED << users, tables, locks, today, next_id, reward_log >>

InitializeSteps(p) ==
    \/ InitializeDailySelect(p)
    \/ InitializeAchievementSelect(p)
    \/ InitializeCommit(p)
    \/ InitializeReturn(p)
    \/ CheckInitialNext(p)

NextRollover ==
    \/ \E p \in {1} :
          \/ RolloverStart(p)
          \/ InitializeSteps(p)
          \/ QuestSteps(p)
          \/ CreditSteps(p)
    \/ NextDay

SpecRollover == InitRollover /\ [][NextRollover]_vars


\* The quest records call i created, and what it did to the ones it found.
CreatedBetween(old, new) == {r \in new : ~ \E r0 \in old : r0.id = r.id}

Created(i) == CreatedBetween(Before(i).user_quests, After(i).user_quests)

SameProgress(r0, r) ==
    /\ r.id = r0.id
    /\ r.progress = r0.progress
    /\ r.completed_at = r0.completed_at
    /\ r.claimed_at = r0.claimed_at

Kept(r0, new) == \E r \in new : SameProgress(r0, r)

Fresh(r) == r.progress = 0 /\ r.completed_at = NULL /\ r.claimed_at = NULL

\* r is a record of an active daily quest for which old holds no record of
\* (u, day).
Eligible(r, old, u, day) ==
    /\ r.user_id = u
    /\ r.quest_date = day
    /\ quests[r.quest_id].quest_type = "daily"
    /\ quests[r.quest_id].is_active
    /\ ~ \E r0 \in old : r0.user_id = u /\ r0.quest_date = day /\ r0.quest_id = r.quest_id

DailyCall(i) == calls[i].op.name = "initialize_daily_quests_for_user"

\* The keys check_initial_quest_conditions reports a value for.
InitialKeys == {"link_all_platforms", "playtime_daily"}

\* The creation step of the running call has just committed: the initial
\* condition check is entered and has looked at no quest yet.
JustCommitted ==
    /\ proc[1].st = "run"
    /\ Len(proc[1].stack) = 2
    /\ Top(1).fn = "check_initial_quest_conditions"
    /\ Top(1).todo = proc[1].stack[1].selected

AchievementCall(i) == calls[i].op.name = "initialize_achievement_quests_for_user"

AchievementRecords(snap, u, q) ==
    {r \in snap.user_quests : r.user_id = u /\ r.quest_id = q /\ r.quest_date = NULL}

\* The active achievement quests u has no record of.
Lacking(snap, u) ==
    {q \in QuestIds : /\ quests[q].quest_type = "achievement"
                      /\ quests[q].is_active
                      /\ AchievementRecords(snap, u, q) = {}}

\* C23: a completed initialize_achievement_quests_for_user call has created
\* exactly one record with quest_date NULL for each active achievement quest
\* the user lacked and no other record; a call made when the user lacks none
\* leaves the quest records and the accounts as they were.
C23_AchievementInitIdempotent ==
    \A i \in 1..Len(calls) :
        AchievementCall(i) /\ Completed(i) =>
            LET u == calls[i].op.user_id
                lacking == Lacking(Before(i), u)
            IN /\ \A q \in lacking :
                     /\ Cardinality(AchievementRecords(After(i), u, q)) = 1
                     /\ AchievementRecords(After(i), u, q) \subseteq Created(i)
               /\ \A r \in Created(i) :
                     r.user_id = u /\ r.quest_date = NULL /\ r.quest_id \in lacking
               /\ lacking = {} =>
                     /\ After(i).user_quests = Before(i).user_quests
                     /\ After(i).users = Before(i).users

\* A first call created the three achievement records and a second call,
\* made after one of them had advanced, changed nothing.
C23_Witness ==
    \E i, j \in 1..Len(calls) :
        /\ i < j
        /\ AchievementCall(i) /\ Completed(i) /\ Cardinality(Created(i)) = 3
        /\ AchievementCall(j) /\ Completed(j)
        /\ Lacking(Before(j), calls[j].op.user_id) = {}
        /\ \E r \in Before(j).user_quests : r.progress > 0


(***************************************************************************)
(* The hourly job: one client runs check_periodic_badges over several      *)
(* auto_check badges (two with the xp_leader handler, one whose handler    *)
(* has no periodic method, one without a handler), and in between the      *)
(* users earn xp and currency.                                             *)
(***************************************************************************)
PeriodicCatalog ==
    [badges |-> {"lead", "rich", "top", "season", "hoard"}, quests |-> {"walk", "save"}]

InitPeriodic ==
    /\ catalog = PeriodicCatalog
    /\ users = [u \in Users |-> [xp |-> InitXp, level |-> calculate_level_from_xp(InitXp),
                                balance |-> InitBalance]]
    /\ user_badges = {}
    /\ user_badge_progress = {}
    /\ user_quests = {}
    /\ user_counters = [k \in Users \X CounterKeys |-> NULL]
    /\ locks = {}
    /\ clock = 0
    /\ today = 1
    /\ next_id = 1
    /\ proc = [p \in Procs |-> IdleProc]
    /\ reward_log = [s \in Users \X Defs \X Scopes |-> [xp |-> 0, balance |-> 0]]
    /\ calls = << >>

\* An amount that takes a user past a leader who was paid the rewards.
Overtake == 7

PeriodicOps ==
    { [name |-> "check_periodic_badges", leader |-> ""],
      [name |-> "add_currency", user_id |-> "u1", amount |-> 1] }
    \cup { [name |-> "award_xp", user_id |-> u, amount |-> Overtake] : u \in Users }
    \cup { [name |-> "extend_or_award_badge", user_id |-> "u1", badge_id |-> b] :
           b \in {"top", "hoard"} }

PeriodicStart(p) ==
    /\ proc[p].st \in {"idle", "done", "error"}
    /\ Len(calls) < MaxCalls
    /\ \E op \in PeriodicOps, d \in {1, Hour} :
          /\ clock' = IF calls = << >> THEN clock ELSE clock + d
          /\ clock' <= MaxClock
          /\ proc' = [proc EXCEPT ![p] = Started(op, FrameOf(op))]
          /\ calls' = Append(calls, [op |-> op, before |-> Snap, now |-> clock'])
    /\ UNCHANGED << users, tables, locks, today, next_id, reward_log >>

NextPeriodic ==
    \E p \in {1} :
        \/ PeriodicStart(p)
        \/ AwardSteps(p)

SpecPeriodic == InitPeriodic /\ [][NextPeriodic]_vars

PassCall(i) == calls[i].op.name = "check_periodic_badges"

AutoCheck == {b \in BadgeIds : badges[b].auto_check}

\* The users whose grant of b call i created, extended or removed.
Touched(i, b) == {u \in Users : RowsIn(Before(i), u, b) # RowsIn(After(i), u, b)}

TopXp(snap) == {u \in Users : \A v \in Users : snap.users[u].xp >= snap.users[v].xp}

\* C24: a check_periodic_badges pass changes, for each auto_check badge, the
\* grant of at most one user, who leads by xp; every other user keeps the
\* UserBadge rows (expires_at included), the xp and the balance they had, so
\* the grant of a former leader is neither extended nor revoked.
C24_PassTouchesOnlyTheLeader ==
    \A i \in 1..Len(calls) :
        PassCall(i) /\ Completed(i) =>
            /\ \A b \in AutoCheck :
                  /\ Cardinality(Touched(i, b)) <= 1
                  /\ Touched(i, b) \subseteq TopXp(Before(i)) \cup TopXp(After(i))
            /\ \A u \in Users :
                  (\A b \in AutoCheck : u \notin Touched(i, b)) =>
                      /\ After(i).users[u] = Before(i).users[u]
                      /\ \A b \in BadgeIds : RowsIn(After(i), u, b) = RowsIn(Before(i), u, b)

\* A pass gave the temporary badge to a new leader while the former leader
\* still held a grant of it, which the pass left as it was.
C24_Witness ==
    \E i \in 1..Len(calls) :
        /\ PassCall(i) /\ Completed(i)
        /\ \E u, v \in Users :
              /\ u # v
              /\ Touched(i, "lead") = {u}
              /\ RowsIn(Before(i), v, "lead") # {}
              /\ RowsIn(After(i), v, "lead") = RowsIn(Before(i), v, "lead")


(***************************************************************************)
(* The hourly job next to the admin panel: a check_periodic_badges pass    *)
(* runs while an administrator awards a badge by hand, each in its own     *)
(* session.                                                                *)
(***************************************************************************)
NextPass ==
    \/ StartPeriodic(1)
    \/ StartAdminAward(2)
    \/ \E p \in Procs :
          \/ AwardSteps(p)
          \/ AdminAwardSelectExisting(p)
          \/ AdminAwardInsert(p)
          \/ StatementFails(p)
    \/ Tick

\* u1 was credited one unit of currency before: the counter and the
\* progress on the two currency_accumulated badges hold it.
InitPass ==
    /\ catalog = PeriodicCatalog
    /\ users = [u \in Users |-> [xp |-> InitXp, level |-> calculate_level_from_xp(InitXp),
                                balance |-> InitBalance]]
    /\ user_badges = {}
    /\ user_badge_progress =
          {[id |-> 1, user_id |-> "u1", badge_id |-> "rich", progress |-> 1, completed_at |-> NULL],
           [id |-> 2, user_id |-> "u1", badge_id |-> "hoard", progress |-> 1, completed_at |-> NULL]}
    /\ user_quests = {}
    /\ user_counters = [k \in Users \X CounterKeys |->
                           IF k = << "u1", "currency_accumulated" >> THEN 1 ELSE NULL]
    /\ locks = {}
    /\ clock = 0
    /\ today = 1
    /\ next_id = 3
    /\ proc = [p \in Procs |-> IdleProc]
    /\ reward_log = [s \in Users \X Defs \X Scopes |-> [xp |-> 0, balance |-> 0]]
    /\ calls = << >>

SpecPass == InitPass /\ [][NextPass]_vars

Quiet == \A p \in Procs : proc[p].st # "run"

PassOf(p) == proc[p].op.name = "check_periodic_badges"

\* The auto_check badges whose handler has a periodic method.
Led == {b \in AutoCheck : badges[b].condition_key \in CONDITION_HANDLERS \cap PeriodicHandlers}

Granted(b) == \E r \in user_badges : r.badge_id = b

\* C25: a check_periodic_badges pass returns without raising, and a failure
\* on one badge keeps it from no other auto_check badge: once it has
\* returned and nothing else runs, every auto_check badge with a periodic
\* handler is granted to a leader.
C25_PassIsolatesFailures ==
    \A p \in Procs :
        PassOf(p) =>
            /\ proc[p].st # "error"
            /\ proc[p].st = "done" /\ Quiet => \A b \in Led : Granted(b)

\* A pass has returned after the award of one badge failed in it.
C25_Witness ==
    \E p \in Procs :
        /\ PassOf(p) /\ proc[p].st = "done" /\ Quiet
        /\ ~proc[p].valid


(***************************************************************************)
(* Fan-out: a currency credit reports progress to the two badges of the    *)
(* currency_accumulated condition (rich, hoard) while an administrator     *)
(* awards a badge by hand, each in its own session.                        *)
(***************************************************************************)
NextFanout ==
    \/ StartAddCurrency(1)
    \/ StartAdminAward(2)
    \/ \E p \in Procs :
          \/ CreditSteps(p)
          \/ AdminAwardSelectExisting(p)
          \/ AdminAwardInsert(p)

SpecFanout == InitPeriodic /\ [][NextFanout]_vars

Sharing(key) == {b \in BadgeIds : badges[b].condition_key = key}

ProgressRows(u, b) == {r \in user_badge_progress : r.user_id = u /\ r.badge_id = b}

\* The amounts of the credits of u that have returned.
CreditedTo(u) ==
    SumOfAmounts({p \in Procs : /\ proc[p].op.name = "add_currency"
                                /\ proc[p].op.user_id = u
                                /\ proc[p].st = "done"})

\* The progress of u on b is up to date: it holds what was credited, or it
\* was completed on the way there and the badge is granted.
UpToDate(u, b) ==
    \E r \in ProgressRows(u, b) :
        \/ r.completed_at = NULL /\ r.progress = CreditedTo(u)
                                 /\ ~Reached(badges[b].target_value, r.progress)
        \/ r.completed_at # NULL /\ Rows(u, b) # {}

\* The badge the administrator's request is about: the only grant whose
\* insert can collide.
ByHand == {proc[p].op.badge_id : p \in {q \in Procs : proc[q].op.name = "admin_award_badge"}}

\* C26: when update_progress fans out over the badges that share a
\* condition_key, a failure on one of them (the insert of the grant, a
\* reward step) is isolated: once the credit has returned, every other
\* badge of the key holds the progress, the completion and the grant.
C26_FanoutIsolatesFailures ==
    \A u \in Subjects :
        Quiet /\ CreditedTo(u) > 0 =>
            \A b \in Sharing("currency_accumulated") \ ByHand : UpToDate(u, b)

\* A credit has returned after the grant of one of the two badges failed.
C26_Witness ==
    \E p \in Procs :
        /\ Quiet
        /\ proc[p].op.name = "add_currency" /\ proc[p].st = "done" /\ ~proc[p].valid
        /\ \E b \in Sharing("currency_accumulated") : UpToDate(proc[p].op.user_id, b)


(***************************************************************************)
(* Side effects: one client reports progress and credits currency, and     *)
(* the notification and activity records of a completion may fail to be    *)
(* written.                                                                *)
(***************************************************************************)
SideEffectOps ==
    { [name |-> "quest_update_progress", condition_key |-> in[1], user_id |-> "u1",
       increment |-> in[2], absolute_value |-> in[3], side_effects |-> e] :
      in \in { << "server_join", 1, NULL >>, << "blocks_traveled", 0, 3 >>,
               << "link_all_platforms", 0, 3 >> },
      e \in {"ok", "fail"} }
    \cup { [name |-> "add_currency", user_id |-> "u1", amount |-> 2, side_effects |-> e] :
           e \in {"ok", "fail"} }

SideEffectStart(p) ==
    /\ proc[p].st \in {"idle", "done", "error"}
    /\ Len(calls) < MaxCalls
    /\ \E op \in SideEffectOps :
          /\ clock' = IF calls = << >> THEN clock ELSE clock + 1
          /\ clock' <= MaxClock
          /\ proc' = [proc EXCEPT ![p] = Started(op, FrameOf(op))]
          /\ calls' = Append(calls, [op |-> op, before |-> Snap, now |-> clock'])
    /\ UNCHANGED << users, tables, locks, today, next_id, reward_log >>

NextSideEffect ==
    \E p \in {1} :
        \/ SideEffectStart(p)
        \/ QuestSteps(p)
        \/ CreditSteps(p)

SpecSideEffect == InitRollover /\ [][NextSideEffect]_vars

\* Call i took the uncompleted record of quest q to its target.
ReachedBy(i, q) ==
    /\ UpdatedQuest(i, q)
    /\ LET op == calls[i].op
           counter == IF op.condition_key \in CounterKeys
                      THEN Stored(Before(i), op.user_id, op.condition_key) ELSE 0
       IN Reached(quests[q].target_value,
                  NewProgress(CurrentProgress(i, q), counter, op.absolute_value, op.increment))

\* Call i credited 2 to a user who had no grant of the badge rich.
EarnedBy(i) ==
    /\ Completed(i)
    /\ calls[i].op.name = "add_currency"
    /\ RowsIn(Before(i), calls[i].op.user_id, "rich") = {}

\* C27: a failure of create_notification or create_activity never undoes
\* the completion: after the call the quest record has completed_at and
\* claimed_at and the rewards were credited, and the badge is granted with
\* its rewards credited, also when reward_xp and reward_balance are both 0.
C27_SideEffectsKeepCompletion ==
    \A i \in 1..Len(calls) :
        /\ \A q \in QuestIds :
              ReachedBy(i, q) =>
                  LET u == calls[i].op.user_id
                      src == << u, q, Scope(q, Before(i).today) >>
                  IN /\ \E r \in RecordsIn(After(i), Before(i), u, q) :
                           r.completed_at # NULL /\ r.claimed_at # NULL
                     /\ Paid(Before(i), After(i), src) =
                           [xp |-> Once(quests[q].reward_xp),
                            balance |-> Once(quests[q].reward_balance)]
        /\ EarnedBy(i) =>
              /\ RowsIn(After(i), calls[i].op.user_id, "rich") # {}
              /\ Paid(Before(i), After(i), << calls[i].op.user_id, "rich", NULL >>) =
                    [xp |-> Once(badges["rich"].reward_xp),
                     balance |-> Once(badges["rich"].reward_balance)]

\* The side effects of a completion with rewards failed and the completion
\* stayed; so did the grant of a badge.
C27_Witness ==
    \E i, j \in 1..Len(calls) :
        /\ calls[i].op.side_effects = "fail" /\ ReachedBy(i, "walk")
        /\ \E r \in RecordsIn(After(i), Before(i), "u1", "walk") : r.completed_at # NULL
        /\ calls[j].op.side_effects = "fail" /\ EarnedBy(j)
        /\ RowsIn(After(j), "u1", "rich") # {}


\* C28: in every committed state a quest record has completed_at set if and
\* only if it has claimed_at set, and then the two are the same timestamp.
C28_CompletedIffClaimed ==
    \A r \in user_quests : r.completed_at = r.claimed_at

\* Committed records of both kinds: one completed and claimed at a time
\* after the start, one still open.
C28_Witness ==
    \E r, o \in user_quests :
        /\ r.completed_at # NULL /\ r.completed_at > 0 /\ r.claimed_at = r.completed_at
        /\ o.completed_at = NULL /\ o.claimed_at = NULL /\ o.progress > 0


\* The grants without an end that u holds of b, a permanent or event badge.
Lasting(snap, u, b) ==
    IF badges[b].badge_type = "temporary" THEN {}
    ELSE {r \in RowsIn(snap, u, b) : r.expires_at = NULL}

ExtendCall(i) == calls[i].op.name = "extend_or_award_badge"

\* C29: once a user holds a grant with expires_at NULL of a permanent or
\* event badge, a later extend_or_award_badge for the pair changes nothing:
\* the UserBadge rows, the xp and the balance are as before; and a periodic
\* pass, which makes that call for the leader, leaves the grant as it is.
C29_LastingGrantUntouched ==
    \A i \in 1..Len(calls) :
        Completed(i) =>
            /\ ExtendCall(i) /\ Lasting(Before(i), calls[i].op.user_id, calls[i].op.badge_id) # {} =>
                  /\ After(i).user_badges = Before(i).user_badges
                  /\ After(i).users = Before(i).users
                  /\ After(i).st = "done"
            /\ PassCall(i) =>
                  \A u \in Users : \A b \in BadgeIds :
                      Lasting(Before(i), u, b) \subseteq Lasting(After(i), u, b)

\* A second extend_or_award_badge for a granted event badge, and a pass
\* that found the leader holding the permanent badge.
C29_Witness ==
    \E i, j \in 1..Len(calls) :
        /\ Completed(i) /\ ExtendCall(i) /\ calls[i].op.badge_id = "hoard"
        /\ Lasting(Before(i), "u1", "hoard") # {}
        /\ Completed(j) /\ PassCall(j) /\ calls[j].now > 0
        /\ \E u \in Users : Lasting(Before(j), u, "top") # {} /\ u \in TopXp(Before(j))

(***************************************************************************)
(* Definitions without a target: a badge whose target_value is NULL (the   *)
(* update endpoint of badges.py sets condition_key without asking for a    *)
(* target) and a quest whose target_value is 0 (the column is NOT NULL)    *)
(* stand next to definitions of the same keys that have one; one client    *)
(* creates the achievement records, reports progress and credits currency. *)
(***************************************************************************)
UnsetCatalog == [badges |-> {"rich", "idle"}, quests |-> {"walk", "free"}]

InitUnset ==
    /\ catalog = UnsetCatalog
    /\ users = [u \in Users |-> [xp |-> InitXp, level |-> calculate_level_from_xp(InitXp),
                                balance |-> InitBalance]]
    /\ user_badges = {}
    /\ user_badge_progress = {}
    /\ user_quests = {}
    /\ user_counters = [k \in Users \X CounterKeys |-> NULL]
    /\ locks = {}
    /\ clock = 0
    /\ today = 1
    /\ next_id = 1
    /\ proc = [p \in Procs |-> IdleProc]
    /\ reward_log = [s \in Users \X Defs \X Scopes |-> [xp |-> 0, balance |-> 0]]
    /\ calls = << >>

UnsetOps ==
    { [name |-> "initialize_achievement_quests_for_user", user_id |-> "u1",
       linked_count |-> 0, total_playtime_seconds |-> 0],
      [name |-> "quest_update_progress", condition_key |-> "messages_sent",
       user_id |-> "u1", increment |-> 1, absolute_value |-> NULL],
      [name |-> "quest_update_progress", condition_key |-> "messages_sent",
       user_id |-> "u1", increment |-> 0, absolute_value |-> 3],
      [name |-> "quest_update_progress", condition_key |-> "blocks_traveled",
       user_id |-> "u1", increment |-> 0, absolute_value |-> 3] }
    \cup { [name |-> "add_currency", user_id |-> "u1", amount |-> a] : a \in {1, 2} }

UnsetStart(p) ==
    /\ proc[p].st \in {"idle", "done", "error"}
    /\ Len(calls) < MaxCalls
    /\ \E op \in UnsetOps :
          /\ clock' = IF calls = << >> THEN clock ELSE clock + 1
          /\ clock' <= MaxClock
          /\ proc' = [proc EXCEPT ![p] = Started(op, FrameOf(op))]
          /\ calls' = Append(calls, [op |-> op, before |-> Snap, now |-> clock'])
    /\ UNCHANGED << users, tables, locks, today, next_id, reward_log >>

NextUnset ==
    \E p \in {1} :
        \/ UnsetStart(p)
        \/ InitializeAchievementSelect(p)
        \/ InitializeCommit(p)
        \/ InitializeReturn(p)
        \/ CheckInitialNext(p)
        \/ QuestSteps(p)
        \/ CreditSteps(p)

SpecUnset == InitUnset /\ [][NextUnset]_vars

\* "not target_value": the definition has no target (NULL, or 0 where the
\* column cannot be NULL).
Unset(target_value) == target_value = NULL \/ target_value = 0

UnsetBadges == {b \in BadgeIds : Unset(badges[b].target_value)}

UnsetQuests == {q \in QuestIds : Unset(quests[q].target_value)}

\* What was credited to u for definition d, over every scope.
RewardsFor(u, d) == {reward_log[<< u, d, s >>] : s \in Scopes}

\* C30: a definition whose target_value is unset is never completed by
\* update_progress: whatever progress updates were made, the progress row
\* of such a badge and the record of such a quest have completed_at NULL
\* (the quest record claimed_at NULL too), no UserBadge row of the badge
\* exists, and no xp and no currency were credited for the definition.
C30_UnsetTargetNeverCompleted ==
    /\ \A r \in user_badge_progress : r.badge_id \in UnsetBadges => r.completed_at = NULL
    /\ \A r \in user_quests :
          r.quest_id \in UnsetQuests => r.completed_at = NULL /\ r.claimed_at = NULL
    /\ \A r \in user_badges : r.badge_id \notin UnsetBadges
    /\ \A u \in Users : \A d \in UnsetBadges \cup UnsetQuests :
          RewardsFor(u, d) = {[xp |-> 0, balance |-> 0]}

\* The badge without a target has the progress at which the badge of the
\* same key was completed and granted, and the quest without a target has
\* progress too; both are still open.
C30_Witness ==
    /\ \E r \in user_badge_progress :
          r.badge_id = "idle" /\ r.progress >= badges["rich"].target_value
    /\ \E r \in user_badge_progress : r.badge_id = "rich" /\ r.completed_at # NULL
    /\ \E r \in user_badges : r.badge_id = "rich"
    /\ \E r \in user_quests : r.quest_id = "free" /\ r.progress >= 3

(***************************************************************************)
(* Contention: the periodic job (process 1) runs check_periodic_badges     *)
(* while a request (process 2) credits xp or currency, debits currency or  *)
(* reports quest progress, for the same account or for another one.  Both  *)
(* accounts have the highest xp, u1 holds the temporary badge "lead" and   *)
(* has a record of the achievement "walk" one step short of its target.    *)
(***************************************************************************)
InitContend ==
    /\ catalog = BaseCatalog
    /\ users = [u \in Users |-> [xp |-> InitXp, level |-> calculate_level_from_xp(InitXp),
                                balance |-> InitBalance]]
    /\ user_badges = {[id |-> 1, user_id |-> "u1", badge_id |-> "lead", expires_at |-> Hour]}
    /\ user_badge_progress = {}
    /\ user_quests = {[id |-> 2, user_id |-> "u1", quest_id |-> "walk", quest_date |-> NULL,
                       progress |-> quests["walk"].target_value - 1,
                       completed_at |-> NULL, claimed_at |-> NULL]}
    /\ user_counters = [k \in Users \X CounterKeys |-> NULL]
    /\ locks = {}
    /\ clock = 0
    /\ today = 1
    /\ next_id = 3
    /\ proc = [p \in Procs |-> IdleProc]
    /\ reward_log = [s \in Users \X Defs \X Scopes |-> [xp |-> 0, balance |-> 0]]
    /\ calls = << >>

ContendOps ==
    { [name |-> n, user_id |-> u, amount |-> a] :
        n \in {"award_xp", "add_currency", "deduct_currency"}, u \in Users, a \in CreditAmounts }
    \cup { [name |-> "quest_update_progress", condition_key |-> "blocks_traveled",
            user_id |-> "u1", increment |-> 1, absolute_value |-> NULL] }

\* The steps a running request or job can take.
ContendSteps(p) ==
    \/ CreditSteps(p)
    \/ ExtendSelectExisting(p)
    \/ ExtendCommit(p)
    \/ ExtendReturn(p)
    \/ PeriodicSelectBadges(p)
    \/ PeriodicNext(p)
    \/ GetLeader(p)
    \/ CheckAndExtendReturn(p)
    \/ QuestSteps(p)
    \/ DeductCurrencySelect(p)
    \/ DeductCurrencyCheck(p)

NextContend ==
    \/ StartPeriodic(1)
    \/ \E op \in ContendOps : Start(2, op)
    \/ \E p \in Procs : ContendSteps(p)

\* The event loop and the database run every coroutine that can go on.
SpecContend ==
    InitContend /\ [][NextContend]_vars /\ \A p \in Procs : WF_vars(ContendSteps(p))

Running(p) == proc[p].st = "run"

\* p is running a ledger mutation that waits for the account row.
AwaitsAccount(p) ==
    /\ Running(p)
    /\ Top(p).fn \in {"award_xp", "add_currency", "deduct_currency"}
    /\ Top(p).pc = "select"

\* p went past the SELECT ... FOR UPDATE and holds the account row.
HoldsAccount(p) ==
    /\ Running(p)
    /\ Top(p).fn \in {"award_xp", "add_currency", "deduct_currency"}
    /\ Top(p).pc \in {"commit", "check"}
    /\ [p |-> p, res |-> UserRes(Top(p).user_id)] \in locks

\* No process can take a step although one is running.
Deadlocked == (\E p \in Procs : Running(p)) /\ ~\E p \in Procs : ENABLED ContendSteps(p)

\* C31: while a periodic pass runs next to an event-driven completion or a
\* credit, for the same or for different users, no deadlock is reachable,
\* and with weak fairness every ledger mutation (award_xp, add_currency,
\* deduct_currency) that waits for the account row in a usable session
\* gets its lock, every holder of the lock goes on to release it, and every
\* request and the pass come to an end.
C31_NoDeadlockNoStarvation ==
    /\ [] ~Deadlocked
    /\ \A p \in Procs : (AwaitsAccount(p) /\ proc[p].valid) ~> HoldsAccount(p)
    /\ \A p \in Procs : HoldsAccount(p) ~> ~HoldsAccount(p)
    /\ \A p \in Procs : Running(p) ~> ~Running(p)

\* The request waits at its SELECT ... FOR UPDATE for the account row that
\* the periodic pass holds for a reward of the badge it is granting.
C31_Witness ==
    /\ PassOf(1) /\ HoldsAccount(1)
    /\ AwaitsAccount(2)
    /\ Top(2).user_id = Top(1).user_id
    /\ ~ENABLED ContendSteps(2)

(***************************************************************************)
(* Expiry of grants: the catalogue holds a temporary badge of the periodic *)
(* kind ("lead"), a temporary badge with a threshold ("streak": badges.py  *)
(* accepts any badge_type with any condition_key) and a permanent badge    *)
(* with a threshold ("rich"); one client runs passes and credits, one call *)
(* after the other, while time goes by.                                    *)
(***************************************************************************)
ExpiryCatalog == [badges |-> {"lead", "rich", "streak"}, quests |-> {"walk", "save"}]

InitExpiry ==
    /\ catalog = ExpiryCatalog
    /\ users = [u \in Users |-> [xp |-> InitXp, level |-> calculate_level_from_xp(InitXp),
                                balance |-> InitBalance]]
    /\ user_badges = {}
    /\ user_badge_progress = {}
    /\ user_quests = {}
    /\ user_counters = [k \in Users \X CounterKeys |-> NULL]
    /\ locks = {}
    /\ clock = 0
    /\ today = 1
    /\ next_id = 1
    /\ proc = [p \in Procs |-> IdleProc]
    /\ reward_log = [s \in Users \X Defs \X Scopes |-> [xp |-> 0, balance |-> 0]]
    /\ calls = << >>

ExpiryOps ==
    { [name |-> "check_periodic_badges", leader |-> ""],
      [name |-> "award_xp", user_id |-> "u2", amount |-> Overtake] }
    \cup { [name |-> "add_currency", user_id |-> "u1", amount |-> a] : a \in CreditAmounts }

ExpiryStart(p) ==
    /\ proc[p].st \in {"idle", "done", "error"}
    /\ Len(calls) < MaxCalls
    /\ \E op \in ExpiryOps, d \in {1, Hour} :
          /\ clock' = IF calls = << >> THEN clock ELSE clock + d
          /\ clock' <= MaxClock
          /\ proc' = [proc EXCEPT ![p] = Started(op, FrameOf(op))]
          /\ calls' = Append(calls, [op |-> op, before |-> Snap, now |-> clock'])
    /\ UNCHANGED << users, tables, locks, today, next_id, reward_log >>

NextExpiry ==
    \E p \in {1} :
        \/ ExpiryStart(p)
        \/ AwardSteps(p)

SpecExpiry == InitExpiry /\ [][NextExpiry]_vars

\* The UserBadge rows that call i created.
Inserted(i) ==
    {r \in After(i).user_badges : ~\E r0 \in Before(i).user_badges : r0.id = r.id}

Temporary(b) == badges[b].badge_type = "temporary"

\* C32: every UserBadge row the engine creates for a temporary badge has an
\* expires_at, which is the time of the call plus one hour, whether the
\* row comes from the periodic path or from the threshold path of
\* update_progress; a row created for a permanent or event badge has
\* expires_at NULL.
C32_ExpiryFollowsType ==
    \A i \in 1..Len(calls) :
        Completed(i) =>
            \A r \in Inserted(i) :
                IF Temporary(r.badge_id)
                THEN r.expires_at # NULL /\ r.expires_at = calls[i].now + Hour
                ELSE r.expires_at = NULL

\* An add_currency call took the temporary threshold badge to its target
\* and created its grant.
C32_Witness ==
    \E i \in 1..Len(calls) :
        /\ Completed(i) /\ calls[i].op.name = "add_currency"
        /\ \E r \in Inserted(i) : r.badge_id = "streak"

\* The part of C32 the code keeps: the rows of the badges that the periodic
\* pass grants, first grants and regrants after expiry, and the rows of
\* permanent badges.
C32_PeriodicAndPermanent ==
    \A i \in 1..Len(calls) :
        Completed(i) =>
            \A r \in Inserted(i) :
                /\ r.badge_id \in Led /\ Temporary(r.badge_id) =>
                      r.expires_at = calls[i].now + Hour
                /\ ~Temporary(r.badge_id) => r.expires_at = NULL

(***************************************************************************)
(* A badge created late: u1 was credited one unit of currency before, the  *)
(* counter and the progress rows of the badges that existed then hold it   *)
(* ("rich", and "idle", which has no target), and the badge "hoard" of the *)
(* same condition_key was created afterwards; one client credits currency, *)
(* one call after the other.                                               *)
(***************************************************************************)
LateCatalog == [badges |-> {"rich", "idle", "hoard"}, quests |-> {"walk"}]

InitLate ==
    /\ catalog = LateCatalog
    /\ users = [u \in Users |-> [xp |-> InitXp, level |-> calculate_level_from_xp(InitXp),
                                balance |-> InitBalance]]
    /\ user_badges = {}
    /\ user_badge_progress =
          {[id |-> 1, user_id |-> "u1", badge_id |-> "rich", progress |-> 1, completed_at |-> NULL],
           [id |-> 2, user_id |-> "u1", badge_id |-> "idle", progress |-> 1, completed_at |-> NULL]}
    /\ user_quests = {}
    /\ user_counters = [k \in Users \X CounterKeys |->
                           IF k = << "u1", "currency_accumulated" >> THEN 1 ELSE NULL]
    /\ locks = {}
    /\ clock = 0
    /\ today = 1
    /\ next_id = 3
    /\ proc = [p \in Procs |-> IdleProc]
    /\ reward_log = [s \in Users \X Defs \X Scopes |-> [xp |-> 0, balance |-> 0]]
    /\ calls = << >>

LateOps ==
    { [name |-> "add_currency", user_id |-> u, amount |-> a] : u \in Users, a \in CreditAmounts }

LateStart(p) ==
    /\ proc[p].st \in {"idle", "done", "error"}
    /\ Len(calls) < MaxCalls
    /\ \E op \in LateOps :
          /\ clock' = IF calls = << >> THEN clock ELSE clock + 1
          /\ clock' <= MaxClock
          /\ proc' = [proc EXCEPT ![p] = Started(op, FrameOf(op))]
          /\ calls' = Append(calls, [op |-> op, before |-> Snap, now |-> clock'])
    /\ UNCHANGED << users, tables, locks, today, next_id, reward_log >>

NextLate ==
    \E p \in {1} :
        \/ LateStart(p)
        \/ CreditSteps(p)

SpecLate == InitLate /\ [][NextLate]_vars

\* The uncompleted progress rows of u in snap on the badges of a key.
OpenRows(snap, u, key) ==
    {r \in snap.user_badge_progress :
        /\ r.user_id = u /\ r.completed_at = NULL
        /\ badges[r.badge_id].condition_key = key}

CreditCall(i) == calls[i].op.name = "add_currency" /\ Completed(i) /\ After(i).st = "done"

\* C33: after add_currency (increment_counter on currency_accumulated, then
\* the badge update_progress) every uncompleted badge progress row of the
\* user for that key holds the user's counter value, when the counter is
\* not zero; also the row of a badge that was created after the user had
\* accumulated some of the counter.
C33_ProgressFollowsCounter ==
    \A i \in 1..Len(calls) :
        CreditCall(i) =>
            LET u == calls[i].op.user_id
                counter == Stored(After(i), u, "currency_accumulated")
            IN counter # 0 =>
                  \A r \in OpenRows(After(i), u, "currency_accumulated") : r.progress = counter

\* The first credit after the late badge was created: its row is there and
\* uncompleted, next to the row of a badge that saw every credit.
C33_Witness ==
    \E i \in 1..Len(calls) :
        /\ CreditCall(i) /\ calls[i].op.user_id = "u1"
        /\ \E r \in OpenRows(After(i), "u1", "currency_accumulated") : r.badge_id = "hoard"
        /\ \E r \in OpenRows(After(i), "u1", "currency_accumulated") : r.badge_id = "idle"

\* The part of C33 the code keeps: the row of a badge that existed when the
\* counter was first incremented holds the counter value.
C33_EarlyBadgesFollowCounter ==
    \A i \in 1..Len(calls) :
        CreditCall(i) =>
            LET u == calls[i].op.user_id IN
            \A r \in OpenRows(After(i), u, "currency_accumulated") :
                r.badge_id # "hoard" \/ u # "u1" =>
                    r.progress = Stored(After(i), u, "currency_accumulated")

(***************************************************************************)
(* The frame of update_progress: one client calls the quest and the badge  *)
(* update_progress for either user, one call after the other.  The         *)
(* catalogue holds a disabled quest ("old") of which u1 has a record from  *)
(* the time it was enabled, and definitions of several keys.               *)
(***************************************************************************)
FrameCatalog ==
    [badges |-> {"lead", "rich", "hoard"}, quests |-> {"walk", "save", "join", "old"}]

InitFrame ==
    /\ catalog = FrameCatalog
    /\ users = [u \in Users |-> [xp |-> InitXp, level |-> calculate_level_from_xp(InitXp),
                                balance |-> InitBalance]]
    /\ user_badges = {}
    /\ user_badge_progress = {}
    /\ user_quests = {[id |-> 1, user_id |-> "u1", quest_id |-> "old", quest_date |-> 1,
                       progress |-> 0, completed_at |-> NULL, claimed_at |-> NULL]}
    /\ user_counters = [k \in Users \X CounterKeys |-> NULL]
    /\ locks = {}
    /\ clock = 0
    /\ today = 1
    /\ next_id = 2
    /\ proc = [p \in Procs |-> IdleProc]
    /\ reward_log = [s \in Users \X Defs \X Scopes |-> [xp |-> 0, balance |-> 0]]
    /\ calls = << >>

FrameOps ==
    { [name |-> "quest_update_progress", condition_key |-> "blocks_traveled",
       user_id |-> u, increment |-> 0, absolute_value |-> 3] : u \in Users }
    \cup { [name |-> "quest_update_progress", condition_key |-> k,
            user_id |-> "u1", increment |-> 1, absolute_value |-> NULL] :
           k \in {"server_join", "currency_accumulated"} }
    \cup { [name |-> "badge_update_progress", condition_key |-> "currency_accumulated",
            user_id |-> u, increment |-> 1] : u \in Users }

FrameStart(p) ==
    /\ proc[p].st \in {"idle", "done", "error"}
    /\ Len(calls) < MaxCalls
    /\ \E op \in FrameOps :
          /\ clock' = IF calls = << >> THEN clock ELSE clock + 1
          /\ clock' <= MaxClock
          /\ proc' = [proc EXCEPT ![p] = Started(op, FrameOf(op))]
          /\ calls' = Append(calls, [op |-> op, before |-> Snap, now |-> clock'])
    /\ UNCHANGED << users, tables, locks, today, next_id, reward_log >>

NextFrame ==
    \E p \in {1} :
        \/ FrameStart(p)
        \/ QuestSteps(p)
        \/ CreditSteps(p)

SpecFrame == InitFrame /\ [][NextFrame]_vars

UpdateCall(i) ==
    calls[i].op.name \in {"quest_update_progress", "badge_update_progress"} /\ Completed(i)

\* The rows of a table that call i created or changed (none is deleted).
ChangedRows(old, new) == new \ old

\* The (user, definition) pairs for which call i credited a reward.
Rewarded(i) ==
    {s \in Users \X Defs \X Scopes : After(i).reward_log[s] # Before(i).reward_log[s]}

KeyOfDef(d) == IF d \in BadgeIds THEN badges[d].condition_key ELSE quests[d].condition_key

Enabled(d) == d \in BadgeIds \/ quests[d].is_active

\* Call i kept within user u and the definitions whose key is in keys:
\* quest records by the call's key, badge rows, grants and rewards by keys.
WithinFrame(i, keys) ==
    LET u == calls[i].op.user_id
        key == calls[i].op.condition_key
    IN /\ \A r \in ChangedRows(Before(i).user_quests, After(i).user_quests) :
             r.user_id = u /\ KeyOfDef(r.quest_id) = key /\ Enabled(r.quest_id)
       /\ \A r \in ChangedRows(Before(i).user_badge_progress, After(i).user_badge_progress) :
             r.user_id = u /\ KeyOfDef(r.badge_id) \in keys
       /\ \A r \in ChangedRows(Before(i).user_badges, After(i).user_badges) :
             r.user_id = u /\ KeyOfDef(r.badge_id) \in keys
       /\ \A s \in Rewarded(i) : s[1] = u /\ KeyOfDef(s[2]) \in keys /\ Enabled(s[2])
       /\ Before(i).user_quests \subseteq After(i).user_quests
             \cup {r \in Before(i).user_quests : r.user_id = u /\ KeyOfDef(r.quest_id) = key}
       /\ \A r \in Before(i).user_badge_progress :
             r \in After(i).user_badge_progress \/ (r.user_id = u /\ KeyOfDef(r.badge_id) \in keys)

\* C34 as stated: update_progress(key, user, ...) creates or modifies
\* progress records, grants and rewards only for the given user and only
\* for enabled definitions whose condition_key equals key.
C34_OnlyKeyAndUser ==
    \A i \in 1..Len(calls) : UpdateCall(i) => WithinFrame(i, {calls[i].op.condition_key})

\* C34: update_progress(key, user, ...) creates or modifies quest records
\* only for the given user and only for enabled quests whose condition_key
\* equals key, and badge progress rows, grants and rewards only for the
\* given user and only for definitions whose condition_key equals key or,
\* through the currency that a completion's reward credits, for badges of
\* the key currency_accumulated; records of disabled definitions, of other
\* keys and of every other user are left unchanged.
C34_OnlyKeyAndUserOrRewardCurrency ==
    \A i \in 1..Len(calls) :
        UpdateCall(i) => WithinFrame(i, {calls[i].op.condition_key, "currency_accumulated"})

\* A server_join report advanced the enabled quest while the record of the
\* disabled quest of the same key stayed as it was, and a completion of the
\* blocks_traveled quest advanced a currency_accumulated badge.
C34_Witness ==
    \E i, j \in 1..Len(calls) :
        /\ UpdateCall(i) /\ calls[i].op.condition_key = "server_join"
        /\ \E r \in ChangedRows(Before(i).user_quests, After(i).user_quests) : r.quest_id = "join"
        /\ \E r \in After(i).user_quests : r.quest_id = "old" /\ r \in Before(i).user_quests
        /\ UpdateCall(j) /\ calls[j].op.condition_key = "blocks_traveled"
        /\ \E r \in ChangedRows(Before(j).user_badge_progress, After(j).user_badge_progress) :
              r.badge_id = "rich"

(***************************************************************************)
(* The leader: the users table starts empty and accounts register (auth.py *)
(* creates the User with xp 0, level 1, balance 0); one client runs        *)
(* periodic passes and credits xp and currency to the accounts, one call   *)
(* after the other, while time goes by.                                    *)
(***************************************************************************)
LeaderCatalog ==
    [badges |-> {"lead", "rich", "top", "season"}, quests |-> {"walk", "save"}, accounts |-> {}]

InitLeader ==
    /\ catalog = LeaderCatalog
    /\ users = [u \in Users |-> [xp |-> 0, level |-> 1, balance |-> 0]]
    /\ user_badges = {}
    /\ user_badge_progress = {}
    /\ user_quests = {}
    /\ user_counters = [k \in Users \X CounterKeys |-> NULL]
    /\ locks = {}
    /\ clock = 0
    /\ today = 1
    /\ next_id = 1
    /\ proc = [p \in Procs |-> IdleProc]
    /\ reward_log = [s \in Users \X Defs \X Scopes |-> [xp |-> 0, balance |-> 0]]
    /\ calls = << >>

\* db.add(User(email=..., username=...)): the column defaults of the model.
Register(u) ==
    /\ u \notin Accounts
    /\ \A p \in Procs : proc[p].st # "run"
    /\ catalog' = [catalog EXCEPT !.accounts = @ \cup {u}]
    /\ users' = [users EXCEPT ![u] = [xp |-> 0, level |-> 1, balance |-> 0]]
    /\ UNCHANGED << user_badges, user_badge_progress, user_quests, user_counters,
                    locks, clock, today, next_id, proc, reward_log, calls >>

LeaderOps ==
    { [name |-> "check_periodic_badges", leader |-> ""] }
    \cup { [name |-> "award_xp", user_id |-> u, amount |-> Overtake] : u \in Accounts }
    \cup { [name |-> "add_currency", user_id |-> u, amount |-> 1] : u \in Accounts }

LeaderStart(p) ==
    /\ proc[p].st \in {"idle", "done", "error"}
    /\ Len(calls) < MaxCalls
    /\ \E op \in LeaderOps, d \in {1, Hour} :
          /\ clock' = IF calls = << >> THEN clock ELSE clock + d
          /\ clock' <= MaxClock
          /\ proc' = [proc EXCEPT ![p] = Started(op, FrameOf(op))]
          /\ calls' = Append(calls, [op |-> op, before |-> Snap, now |-> clock',
                                     accounts |-> Accounts])
    /\ UNCHANGED << users, tables, locks, today, next_id, reward_log >>

NextLeader ==
    \/ \E u \in Users : Register(u)
    \/ \E p \in {1} :
          \/ LeaderStart(p)
          \/ AwardSteps(p)

SpecLeader == InitLeader /\ [][NextLeader]_vars

\* Process p is at the SELECT of the leader in a pass.
Selecting(p) == At(p, "check_and_extend_or_award", "get_leader")

\* The call that extend_or_award_badge is being made for, if the step made
\* one.
Selected(pr) ==
    IF pr.stack # << >> /\ pr.stack[Len(pr.stack)].fn = "extend_or_award_badge"
    THEN {pr.stack[Len(pr.stack)].user_id}
    ELSE {}

\* The selection step of p: somebody is selected exactly when there is an
\* account, and has at least the xp of every account.
SelectsLeader(p) ==
    Selecting(p) /\ proc'[p] # proc[p] =>
        /\ Selected(proc'[p]) = {} <=> Accounts = {}
        /\ \A u \in Selected(proc'[p]) :
              u \in Accounts /\ \A v \in Accounts : users[u].xp >= users[v].xp

\* A pass made while the users table was empty.
EmptyPass(i) == PassCall(i) /\ Completed(i) /\ calls[i].accounts = {}

\* Call i changed nothing and raised nothing.
NoOp(i) ==
    /\ After(i).st = "done" /\ After(i).err = ""
    /\ After(i).users = Before(i).users
    /\ After(i).user_badges = Before(i).user_badges
    /\ After(i).user_badge_progress = Before(i).user_badge_progress
    /\ After(i).user_quests = Before(i).user_quests
    /\ After(i).user_counters = Before(i).user_counters
    /\ After(i).reward_log = Before(i).reward_log

\* C35: in a periodic pass for an xp_leader badge, the user for whom the
\* badge is awarded or extended has, at selection time, at least the xp of
\* every other account; and a pass over no account at all changes nothing
\* and raises no error.
C35_LeaderHasMostXp ==
    /\ [][\A p \in Procs : SelectsLeader(p)]_vars
    /\ [](\A i \in 1..Len(calls) : EmptyPass(i) => NoOp(i))

\* After a pass over the empty users table, accounts registered, one was
\* credited xp, and a pass selected it and granted it the badge while the
\* other account has less xp.
C35_Witness ==
    \E i, j \in 1..Len(calls) :
        /\ EmptyPass(i)
        /\ PassCall(j) /\ Completed(j) /\ calls[j].accounts = Users
        /\ \E u, v \in Users :
              /\ Before(j).users[v].xp < Before(j).users[u].xp
              /\ RowsIn(After(j), u, "lead") # {} /\ RowsIn(Before(j), u, "lead") = {}

(***************************************************************************)
(* Repeated daily initialisation (quest_progress.py 264-331), as issued by *)
(* the daily job and by every read of the quest list.                      *)
(***************************************************************************)
\* The records snap holds for user u and date day.
DailyRecords(snap, u, day) ==
    {r \in snap.user_quests : r.user_id = u /\ r.quest_date = day}

\* Call i is a daily initialisation of a user and date for which an earlier
\* daily initialisation has completed.
Repeated(i) ==
    /\ DailyCall(i)
    /\ \E j \in 1..(i - 1) :
          /\ DailyCall(j) /\ Completed(j)
          /\ calls[j].op.user_id = calls[i].op.user_id
          /\ Before(j).today = Before(i).today

\* C36: after any number of initialize_daily_quests_for_user invocations
\* for the same user and date the user has at most 3 progress records for
\* that date, and an invocation for a date that an earlier invocation has
\* already initialised creates nothing.
C36_DailyInitialisedOnce ==
    \A i \in 1..Len(calls) :
        DailyCall(i) /\ Completed(i) =>
            /\ (\A k \in 1..i : DailyCall(k)) =>
                  Cardinality(DailyRecords(After(i), calls[i].op.user_id,
                                           Before(i).today)) <= SampleSize
            /\ Repeated(i) => Created(i) = {}

\* Two daily initialisations of one user on one day, nothing in between and
\* no playtime to report: the first created three records and the second
\* returned normally.
C36_Witness ==
    /\ Len(calls) >= 2
    /\ DailyCall(1) /\ Completed(1)
    /\ Cardinality(Created(1)) = SampleSize
    /\ DailyCall(2) /\ Completed(2)
    /\ calls[1].op.total_playtime_seconds = 0
    /\ calls[2].op.total_playtime_seconds = 0
    /\ Before(2).today = Before(1).today
    /\ After(2).st = "done"

(***************************************************************************)
(* Daily reset: one client credits currency and reports quest progress     *)
(* for u1, one call after the other, on two consecutive dates.  "save" is  *)
(* a daily quest on a counter key, "play" and "marathon" are daily quests  *)
(* on a key without a counter.                                             *)
(***************************************************************************)
DailyCatalog == [badges |-> {"rich"}, quests |-> {"save", "play", "marathon"}]

InitDaily ==
    /\ catalog = DailyCatalog
    /\ users = [u \in Users |-> [xp |-> InitXp, level |-> calculate_level_from_xp(InitXp),
                                balance |-> InitBalance]]
    /\ user_badges = {}
    /\ user_badge_progress = {}
    /\ user_quests = {}
    /\ user_counters = [k \in Users \X CounterKeys |-> NULL]
    /\ locks = {}
    /\ clock = 0
    /\ today = 1
    /\ next_id = 1
    /\ proc = [p \in Procs |-> IdleProc]
    /\ reward_log = [s \in Users \X Defs \X Scopes |-> [xp |-> 0, balance |-> 0]]
    /\ calls = << >>

DailyOps ==
    { [name |-> "add_currency", user_id |-> "u1", amount |-> 1] }
    \cup { [name |-> "quest_update_progress", condition_key |-> k,
            user_id |-> "u1", increment |-> 1, absolute_value |-> NULL] :
           k \in {"currency_accumulated", "playtime_daily"} }

DailyStart(p) ==
    /\ proc[p].st \in {"idle", "done", "error"}
    /\ Len(calls) < MaxCalls
    /\ \E op \in DailyOps :
          /\ clock' = IF calls = << >> THEN clock ELSE clock + 1
          /\ clock' <= MaxClock
          /\ proc' = [proc EXCEPT ![p] = Started(op, FrameOf(op))]
          /\ calls' = Append(calls, [op |-> op, before |-> Snap, now |-> clock'])
    /\ UNCHANGED << users, tables, locks, today, next_id, reward_log >>

NextDaily ==
    \/ \E p \in {1} :
          \/ DailyStart(p)
          \/ QuestSteps(p)
          \/ CreditSteps(p)
    \/ NextDay

SpecDaily == InitDaily /\ [][NextDaily]_vars

\* What call i reported for (u, key): the increment of a quest update, the
\* amount a credit adds to the currency counter.
ReportOf(i, u, key) ==
    LET op == calls[i].op
    IN IF op.user_id # u THEN 0
       ELSE IF op.name = "quest_update_progress" /\ op.condition_key = key
            THEN op.increment
       ELSE IF op.name = "add_currency" /\ key = "currency_accumulated"
            THEN op.amount
       ELSE 0

\* The activity the first n calls reported for (u, key) on date day.
RECURSIVE ReportedOn(_, _, _, _)
ReportedOn(u, key, day, n) ==
    IF n = 0 THEN 0
    ELSE ReportedOn(u, key, day, n - 1)
            + (IF Before(n).today = day THEN ReportOf(n, u, key) ELSE 0)

DailyRecord(r) == r.quest_date # NULL /\ quests[r.quest_id].quest_type = "daily"

\* Call i left the records of every date other than its own as they were.
OtherDatesKept(i) ==
    /\ \A r0 \in Before(i).user_quests :
          DailyRecord(r0) /\ r0.quest_date # Before(i).today => r0 \in After(i).user_quests
    /\ \A r \in Created(i) : DailyRecord(r) => r.quest_date = Before(i).today

\* C37: the record of a daily quest for a date holds no more progress than
\* the activity reported for its key on that date (it starts at 0 and takes
\* in nothing reported on earlier dates), and a call made on date D leaves
\* the records of every other date unchanged.
C37_DailyReset ==
    /\ \A r \in user_quests :
          DailyRecord(r) =>
              r.progress <= ReportedOn(r.user_id, quests[r.quest_id].condition_key,
                                       r.quest_date, Len(calls))
    /\ \A i \in 1..Len(calls) : Completed(i) => OtherDatesKept(i)

\* What holds of C37: records of daily quests on a key without a counter
\* hold no more than what was reported on their date, and every call leaves
\* the records of other dates unchanged.
C37_ResetWithoutCounter ==
    /\ \A r \in user_quests :
          DailyRecord(r) /\ quests[r.quest_id].condition_key \notin CounterKeys =>
              r.progress <= ReportedOn(r.user_id, quests[r.quest_id].condition_key,
                                       r.quest_date, Len(calls))
    /\ \A i \in 1..Len(calls) : Completed(i) => OtherDatesKept(i)

\* Currency was credited on the first date, and a progress report on the
\* second date has created the record of that date for the quest "save"
\* while the user holds a record of another daily quest from the first date.
C37_Witness ==
    \E i, j \in 1..Len(calls) :
        /\ i < j /\ Completed(j)
        /\ Before(i).today = 1 /\ calls[i].op.name = "add_currency"
        /\ Before(j).today = 2
        /\ calls[j].op.name = "quest_update_progress"
        /\ calls[j].op.condition_key = "currency_accumulated"
        /\ \E r \in Created(j) : r.quest_id = "save" /\ r.quest_date = 2
        /\ \E r \in user_quests : r.quest_date = 1 /\ r.progress > 0

(***************************************************************************)
(* The reward cascade: two requests credit currency.  The badges "saver"   *)
(* and "banker" are completed by accumulated currency and pay currency,    *)
(* so add_currency re-enters itself through update_progress and            *)
(* award_badge (currency.py 65-75, badge_progress.py 97-119, 217-229).     *)
(***************************************************************************)
CascadeCatalog == [badges |-> {"saver", "banker", "rich"}, quests |-> {"walk"}]

InitCascade ==
    /\ catalog = CascadeCatalog
    /\ users = [u \in Users |-> [xp |-> InitXp, level |-> calculate_level_from_xp(InitXp),
                                balance |-> InitBalance]]
    /\ user_badges = {}
    /\ user_badge_progress = {}
    /\ user_quests = {}
    /\ user_counters = [k \in Users \X CounterKeys |-> NULL]
    /\ locks = {}
    /\ clock = 0
    /\ today = 1
    /\ next_id = 1
    /\ proc = [p \in Procs |-> IdleProc]
    /\ reward_log = [s \in Users \X Defs \X Scopes |-> [xp |-> 0, balance |-> 0]]
    /\ calls = << >>

CascadeOps ==
    { [name |-> "add_currency", user_id |-> u, amount |-> a] :
        u \in Subjects, a \in CreditAmounts }

\* The steps a running request can take; a statement that the database
\* rejects raises in the caller.
CascadeSteps(p) ==
    \/ CreditSteps(p)
    \/ StatementFails(p)

NextCascade ==
    \E p \in Procs :
        \/ \E op \in CascadeOps : Start(p, op)
        \/ CascadeSteps(p)

\* The event loop and the database run every coroutine that can go on.
SpecCascade ==
    InitCascade /\ [][NextCascade]_vars /\ \A p \in Procs : WF_vars(CascadeSteps(p))

\* The add_currency calls nested in one another in process p.
Nesting(p) ==
    Cardinality({k \in 1..Len(proc[p].stack) : proc[p].stack[k].fn = "add_currency"})

\* The badges whose completion credits currency.
PayingBadges ==
    {b \in BadgeIds : /\ badges[b].condition_key = "currency_accumulated"
                      /\ badges[b].reward_balance > 0}

\* u's badge b was completed and rewarded at most once: one progress row,
\* one grant, and no more paid than the badge's rewards.
AtMostOnce(u, b) ==
    /\ Cardinality({r \in user_badge_progress : r.user_id = u /\ r.badge_id = b}) <= 1
    /\ Cardinality({r \in user_badges : r.user_id = u /\ r.badge_id = b}) <= 1
    /\ reward_log[<< u, b, NULL >>].xp <= badges[b].reward_xp
    /\ reward_log[<< u, b, NULL >>].balance <= badges[b].reward_balance

LazyCatalog == [badges |-> {"rich"}, quests |-> {"walk", "join"}]

InitLazy ==
    /\ catalog = LazyCatalog
    /\ users = [u \in Users |-> [xp |-> InitXp, level |-> calculate_level_from_xp(InitXp),
                                balance |-> InitBalance]]
    /\ user_badges = {}
    /\ user_badge_progress = {}
    /\ user_quests = {}
    /\ user_counters = [k \in Users \X CounterKeys |-> NULL]
    /\ locks = {}
    /\ clock = 0
    /\ today = 1
    /\ next_id = 1
    /\ proc = [p \in Procs |-> IdleProc]
    /\ reward_log = [s \in Users \X Defs \X Scopes |-> [xp |-> 0, balance |-> 0]]
    /\ calls = << >>

LazyOps ==
    { [name |-> "quest_update_progress", condition_key |-> "blocks_traveled",
       user_id |-> "u1", increment |-> 0, absolute_value |-> v] : v \in {1, 3} }
    \cup { [name |-> "quest_update_progress", condition_key |-> "server_join",
            user_id |-> "u1", increment |-> 1, absolute_value |-> NULL] }
    \cup { [name |-> n, user_id |-> "u1", linked_count |-> 0, total_playtime_seconds |-> 0] :
           n \in {"initialize_daily_quests_for_user",
                  "initialize_achievement_quests_for_user"} }
    \cup { [name |-> "badge_update_progress", condition_key |-> "currency_accumulated",
            user_id |-> "u1", increment |-> 1] }

LazySteps(p) ==
    \/ QuestSteps(p)
    \/ InitializeSteps(p)
    \/ CreditSteps(p)
    \/ StatementFails(p)

NextLazy ==
    \E p \in Procs :
        \/ \E op \in LazyOps : Start(p, op)
        \/ LazySteps(p)

SpecLazy == InitLazy /\ [][NextLazy]_vars

\* No two quest records of one (user, quest, date) with a date, and no two
\* badge progress rows of one (user, badge).
DatedAndBadgeRecordsUnique ==
    /\ \A r1, r2 \in user_quests :
          /\ r1.user_id = r2.user_id /\ r1.quest_id = r2.quest_id
          /\ r1.quest_date = r2.quest_date /\ r1.quest_date # NULL
          => r1 = r2
    /\ \A r1, r2 \in user_badge_progress :
          r1.user_id = r2.user_id /\ r1.badge_id = r2.badge_id => r1 = r2

\* C39: in every reachable state there is at most one progress record per
\* (user, definition, scope), the scope NULL of achievement quests and of
\* badge progress included.
C39_OneRecordPerScope ==
    /\ DatedAndBadgeRecordsUnique
    /\ \A r1, r2 \in user_quests :
          /\ r1.user_id = r2.user_id /\ r1.quest_id = r2.quest_id
          /\ r1.quest_date = r2.quest_date
          => r1 = r2

\* What holds of C39: the records the unique constraints cover, those of a
\* date and the badge progress rows, are never duplicated.
C39_ConstrainedRecordsUnique == DatedAndBadgeRecordsUnique

\* p is about to insert a quest record of (u1, q, scope) it did not find.
Creating(p, q, scope) ==
    /\ proc[p].st = "run"
    /\ \E k \in 1..Len(proc[p].pend) :
          /\ proc[p].pend[k].tbl = "user_quests"
          /\ proc[p].pend[k].op = "ins"
          /\ proc[p].pend[k].row.quest_id = q
          /\ proc[p].pend[k].row.quest_date = scope

\* Two requests run at once and each has found the achievement record of
\* "walk" absent and is creating it.
C39_Witness ==
    /\ Creating(1, "walk", NULL)
    /\ Creating(2, "walk", NULL)

====
